---- MODULE Spec2Model ----
(***************************************************************************)
(* Heartbeat protocol and recovery state machine of the agent-workflows    *)
(* skill (scripts/main.py, scripts/services/*.py, scripts/runtime_state.py)*)
(*                                                                         *)
(* Specifications:                                                         *)
(*   Spec      one invocation of cmd_heartbeat_run against one agent's     *)
(*             terminal session, step by step;                             *)
(*   SpecPure  the pure classifiers applied to enumerated inputs;          *)
(*   SpecAudit the audit directory under appends, trace reads and SLO      *)
(*             summaries (main.py, heartbeat_slo.py);                      *)
(*   SpecTmux  the session operations of tmux_helper.py on one server;     *)
(*   SpecStart cmd_start and cmd_schedule_run on one agent, with its       *)
(*             provider session record and session files;                  *)
(*   SpecSend  send_keys; SpecWait the poll loops and their deadlines;     *)
(*   SpecPolicy parse_heartbeat_recovery_policy;                           *)
(*   SpecReason detect_error_reason on outputs of a few lines;             *)
(*   SpecAttempt run_heartbeat_attempt, poll by poll;                      *)
(*   SpecSkip  one invocation, a heartbeat run or a scheduled run;         *)
(*   SpecDialog the waits and the runtime-state queries of one process;    *)
(*   SpecOperator a heartbeat run while an operator may stop the agent;    *)
(*   SpecIds   successive heartbeat runs and their heartbeat ids;          *)
(*   SpecRace  start_session run by several processes at once.             *)
(***************************************************************************)
EXTENDS Integers, Sequences, FiniteSets, TLC

VARIABLES
    pc,                     \* position of cmd_heartbeat_run
    env,                    \* tmux installed / agent resolved / config flags
    recovery_policy,        \* parsed HeartbeatRecoveryPolicy
    session_mode,           \* normalized heartbeat session_mode
    timeout_seconds,        \* parsed wait timeout, 0 when none configured
    session,                \* session_exists(agent_id)
    session_gen,            \* identity of the live terminal session
    context_left_percent,   \* cmd_heartbeat_run's detected context-left value
    handoff,                \* content of the handoff file of this heartbeat
    rollover_handoff_file,  \* return value of _maybe_rollover_heartbeat_session
    prefixed,               \* heartbeat_message carries the handoff pointer
    attempt,                \* loop variable of the retry loop
    result,                 \* result of the attempt just executed
    final_attempt_result,   \* cmd_heartbeat_run local
    last,                   \* send_status/ack_status/failure_type/reason_code locals
    recovery_action,        \* cmd_heartbeat_run local
    audit,                  \* the agent's audit file, one record per line
    trace,                  \* history of the externally visible steps of the run
    rc,                     \* return code of cmd_heartbeat_run, -1 while running
    call,                   \* the last function application and what it returned
    audit_dir,              \* heartbeat-audit directory: file name -> lines
    now,                    \* the UTC clock read by _utc_now_iso
    tmux,                   \* the panes of the tmux server
    provider                \* provider session files and the persisted record

hbvars == << pc, env, recovery_policy, session_mode, timeout_seconds, session,
             session_gen, context_left_percent, handoff, rollover_handoff_file,
             prefixed, attempt, result, final_attempt_result, last,
             recovery_action, audit, trace, rc >>

vars == << pc, env, recovery_policy, session_mode, timeout_seconds, session,
           session_gen, context_left_percent, handoff, rollover_handoff_file,
           prefixed, attempt, result, final_attempt_result, last,
           recovery_action, audit, trace, rc, call, audit_dir, now, tmux, provider >>

auditvars == << audit_dir, now >>

lifevars == << tmux, provider >>

(***************************************************************************)
(* Bounds                                                                  *)
(***************************************************************************)
MaxRetriesBound == 1
MaxOutLen == 2
MaxAttemptIndex == 3

(***************************************************************************)
(* Python values                                                           *)
(***************************************************************************)
None == "<None>"
NoElapsed == -1

\* str(value or "").strip().lower() on the spellings the inputs are drawn from
StripLower(s) ==
    CASE s = None -> ""
      [] s = "IDLE" -> "idle"
      [] s = " idle " -> "idle"
      [] s = "Blocked" -> "blocked"
      [] s = " BUSY" -> "busy"
      [] s = "Timeout" -> "timeout"
      [] s = " send_fail " -> "send_fail"
      [] s = "NO_ACK" -> "no_ack"
      [] s = " " -> ""
      [] OTHER -> s

RUNTIME_STATES == {"idle", "busy", "blocked", "stuck", "error", "unknown"}

RECOVERABLE_FAILURE_TYPES == {"send_fail", "no_ack", "timeout", "blocked"}

(***************************************************************************)
(* services/heartbeat_state_machine.py                                     *)
(***************************************************************************)
failure_reason_code(failure_type, ack_status, send_status) ==
    LET failure == StripLower(failure_type)
        ack == StripLower(ack_status)
        send == StripLower(send_status)
    IN  IF failure = "send_fail" THEN "HB_SEND_FAIL"
        ELSE IF failure = "blocked" THEN "HB_AGENT_BLOCKED"
        ELSE IF failure = "timeout" THEN "HB_ACK_TIMEOUT"
        ELSE IF failure = "no_ack" THEN "HB_NO_ACK"
        ELSE IF ack = "blocked" THEN "HB_AGENT_BLOCKED"
        ELSE IF ack = "timeout" THEN "HB_ACK_TIMEOUT"
        ELSE IF ack = "no_ack" THEN "HB_NO_ACK"
        ELSE IF send = "fail" THEN "HB_SEND_FAIL"
        ELSE "HB_UNKNOWN"

\* mutant: the timeout test is made before the blocked test
classify_heartbeat_ack_timeout_first(waited_for_ack, last_state, timed_out) ==
    IF ~waited_for_ack THEN << "not_checked", "", "HB_NOT_CHECKED" >>
    ELSE LET state == StripLower(last_state)
         IN  IF state = "idle" THEN << "ack", "", "HB_ACK_OK" >>
             ELSE IF timed_out THEN << "timeout", "timeout", "HB_ACK_TIMEOUT" >>
             ELSE IF state = "blocked"
                  THEN << "blocked", "blocked", "HB_AGENT_BLOCKED" >>
             ELSE << "no_ack", "no_ack", "HB_NO_ACK" >>

\* mutant: an agent that is neither idle nor blocked and did not time out
\* is given no failure type
classify_heartbeat_ack_no_failure_type(waited_for_ack, last_state, timed_out) ==
    IF ~waited_for_ack THEN << "not_checked", "", "HB_NOT_CHECKED" >>
    ELSE LET state == StripLower(last_state)
         IN  IF state = "idle" THEN << "ack", "", "HB_ACK_OK" >>
             ELSE IF state = "blocked"
                  THEN << "blocked", "blocked", "HB_AGENT_BLOCKED" >>
             ELSE IF timed_out THEN << "timeout", "timeout", "HB_ACK_TIMEOUT" >>
             ELSE << "no_ack", "", "HB_NO_ACK" >>

classify_heartbeat_ack(waited_for_ack, last_state, timed_out) ==
    IF ~waited_for_ack THEN << "not_checked", "", "HB_NOT_CHECKED" >>
    ELSE LET state == StripLower(last_state)
         IN  IF state = "idle" THEN << "ack", "", "HB_ACK_OK" >>
             ELSE IF state = "blocked"
                  THEN << "blocked", "blocked", "HB_AGENT_BLOCKED" >>
             ELSE IF timed_out THEN << "timeout", "timeout", "HB_ACK_TIMEOUT" >>
             ELSE << "no_ack", "no_ack", "HB_NO_ACK" >>

\* mutant: off-by-one in the exhaustion test
should_retry_heartbeat_attempt_off_by_one(failure_type, attempt_index, max_retries) ==
    IF attempt_index > max_retries THEN FALSE
    ELSE StripLower(failure_type) \in RECOVERABLE_FAILURE_TYPES

should_retry_heartbeat_attempt(failure_type, attempt_index, max_retries) ==
    IF attempt_index >= max_retries THEN FALSE
    ELSE StripLower(failure_type) \in RECOVERABLE_FAILURE_TYPES

(***************************************************************************)
(* runtime_state.py                                                        *)
(* Terminal text and patterns are sequences of characters.                 *)
(***************************************************************************)
normalize_runtime_state(state) ==
    LET value == StripLower(state)
    IN  IF value \in RUNTIME_STATES THEN value ELSE "unknown"

\* Python's `pattern in output`
Contains(output, pattern) ==
    \E i \in 0..(Len(output) - Len(pattern)) :
        SubSeq(output, i + 1, i + Len(pattern)) = pattern

\* returns the first non-empty pattern found in output, << >> for None
detect_first_pattern(output, patterns) ==
    IF output = << >> \/ patterns = << >> THEN << >>
    ELSE LET hits == { i \in 1..Len(patterns) :
                          patterns[i] # << >> /\ Contains(output, patterns[i]) }
         IN  IF hits = {} THEN << >>
             ELSE patterns[CHOOSE i \in hits : \A j \in hits : i <= j]

\* not output.strip()
IsBlank(output) == \A i \in 1..Len(output) : output[i] = " "

\* the returned dict: state, reason (with the interpolated pattern or
\* threshold kept apart), and elapsed_seconds when one was supplied
Payload(state, reason, pattern, threshold, elapsed_seconds) ==
    [state |-> state, reason |-> reason, pattern |-> pattern,
     threshold |-> threshold, elapsed_seconds |-> elapsed_seconds]

\* mutant: the busy patterns are tested before the blocked patterns
evaluate_runtime_state_busy_first(output, runtime_config, elapsed_seconds, error_reason, session_running, output_readable, force_state) ==
    LET stuck_after_seconds ==
            IF runtime_config.stuck_after_seconds <= 0 THEN 180
            ELSE runtime_config.stuck_after_seconds
        blocked_pattern == detect_first_pattern(output, runtime_config.blocked_patterns)
        busy_pattern == detect_first_pattern(output, runtime_config.busy_patterns)
        P(state, reason, pattern, threshold) ==
            Payload(state, reason, pattern, threshold, elapsed_seconds)
    IN  IF force_state # None /\ force_state # ""
        THEN P(normalize_runtime_state(force_state), "forced", << >>, 0)
        ELSE IF ~session_running
        THEN P("unknown", "session_not_running", << >>, 0)
        ELSE IF ~output_readable
        THEN P("unknown", "unreadable_output", << >>, 0)
        ELSE IF busy_pattern # << >>
        THEN IF elapsed_seconds # NoElapsed /\ elapsed_seconds >= stuck_after_seconds
             THEN P("stuck", "busy_elapsed>=", << >>, stuck_after_seconds)
             ELSE P("busy", "busy_pattern:", busy_pattern, 0)
        ELSE IF blocked_pattern # << >>
        THEN P("blocked", "blocked_pattern:", blocked_pattern, 0)
        ELSE IF error_reason # None /\ error_reason # ""
        THEN P("error", error_reason, << >>, 0)
        ELSE IF IsBlank(output)
        THEN P("unknown", "empty_output", << >>, 0)
        ELSE P("idle", "ready", << >>, 0)

\* mutant: stuck is reported one second before the threshold
evaluate_runtime_state_stuck_early(output, runtime_config, elapsed_seconds, error_reason, session_running, output_readable, force_state) ==
    LET stuck_after_seconds ==
            IF runtime_config.stuck_after_seconds <= 0 THEN 180
            ELSE runtime_config.stuck_after_seconds
        blocked_pattern == detect_first_pattern(output, runtime_config.blocked_patterns)
        busy_pattern == detect_first_pattern(output, runtime_config.busy_patterns)
        P(state, reason, pattern, threshold) ==
            Payload(state, reason, pattern, threshold, elapsed_seconds)
    IN  IF force_state # None /\ force_state # ""
        THEN P(normalize_runtime_state(force_state), "forced", << >>, 0)
        ELSE IF ~session_running
        THEN P("unknown", "session_not_running", << >>, 0)
        ELSE IF ~output_readable
        THEN P("unknown", "unreadable_output", << >>, 0)
        ELSE IF blocked_pattern # << >>
        THEN P("blocked", "blocked_pattern:", blocked_pattern, 0)
        ELSE IF busy_pattern # << >>
        THEN IF elapsed_seconds # NoElapsed /\ elapsed_seconds >= stuck_after_seconds - 1
             THEN P("stuck", "busy_elapsed>=", << >>, stuck_after_seconds)
             ELSE P("busy", "busy_pattern:", busy_pattern, 0)
        ELSE IF error_reason # None /\ error_reason # ""
        THEN P("error", error_reason, << >>, 0)
        ELSE IF IsBlank(output)
        THEN P("unknown", "empty_output", << >>, 0)
        ELSE P("idle", "ready", << >>, 0)

\* output is always a str here: every caller passes "" or tmux's stdout, so
\* the isinstance(output, str) guard of lines 162-165 never fires.
evaluate_runtime_state(output, runtime_config, elapsed_seconds, error_reason, session_running, output_readable, force_state) ==
    LET stuck_after_seconds ==
            IF runtime_config.stuck_after_seconds <= 0 THEN 180
            ELSE runtime_config.stuck_after_seconds
        blocked_pattern == detect_first_pattern(output, runtime_config.blocked_patterns)
        busy_pattern == detect_first_pattern(output, runtime_config.busy_patterns)
        P(state, reason, pattern, threshold) ==
            Payload(state, reason, pattern, threshold, elapsed_seconds)
    IN  IF force_state # None /\ force_state # ""
        THEN P(normalize_runtime_state(force_state), "forced", << >>, 0)
        ELSE IF ~session_running
        THEN P("unknown", "session_not_running", << >>, 0)
        ELSE IF ~output_readable
        THEN P("unknown", "unreadable_output", << >>, 0)
        ELSE IF blocked_pattern # << >>
        THEN P("blocked", "blocked_pattern:", blocked_pattern, 0)
        ELSE IF busy_pattern # << >>
        THEN IF elapsed_seconds # NoElapsed /\ elapsed_seconds >= stuck_after_seconds
             THEN P("stuck", "busy_elapsed>=", << >>, stuck_after_seconds)
             ELSE P("busy", "busy_pattern:", busy_pattern, 0)
        ELSE IF error_reason # None /\ error_reason # ""
        THEN P("error", error_reason, << >>, 0)
        ELSE IF IsBlank(output)
        THEN P("unknown", "empty_output", << >>, 0)
        ELSE P("idle", "ready", << >>, 0)

(***************************************************************************)
(* commands/schedule_run.py                                                *)
(***************************************************************************)
\* timeout_seconds when no max runtime is configured (None or 0)
NoTimeout == 0

\* the decision with the stuck default applied to a busy agent as well
_decide_runtime_action_busy_default(state, elapsed, timeout, reason) ==
    LET restart_threshold == IF timeout # NoTimeout THEN timeout ELSE 900
    IN  IF state = "blocked" THEN [action |-> "skip", reason |-> "blocked"]
        ELSE IF state = "error" THEN [action |-> "restart", reason |-> reason]
        ELSE IF state \in {"stuck", "busy"}
        THEN IF elapsed # NoElapsed /\ elapsed >= restart_threshold
             THEN [action |-> "restart", reason |-> state]
             ELSE [action |-> "skip", reason |-> state]
        ELSE [action |-> "continue", reason |-> ""]

\* timeout: the timeout_seconds argument
_decide_runtime_action(state, elapsed, timeout, reason) ==
    IF state = "blocked" THEN [action |-> "skip", reason |-> "blocked"]
    ELSE IF state = "error" THEN [action |-> "restart", reason |-> reason]
    ELSE IF state = "stuck"
    THEN LET restart_threshold == IF timeout # NoTimeout THEN timeout
                                  ELSE 900
         IN  IF elapsed # NoElapsed /\ elapsed >= restart_threshold
             THEN [action |-> "restart", reason |-> "stuck>"]
             ELSE [action |-> "skip", reason |-> "stuck_below_threshold"]
    ELSE IF state = "busy"
    THEN IF timeout # NoTimeout /\ elapsed # NoElapsed
            /\ elapsed >= timeout
         THEN [action |-> "restart", reason |-> "busy>"]
         ELSE [action |-> "skip", reason |-> "busy"]
    ELSE [action |-> "continue", reason |-> ""]

(***************************************************************************)
(* SpecPure: the classifiers applied to enumerated inputs                  *)
(***************************************************************************)
LastStates == RUNTIME_STATES \cup {None, "IDLE", "Blocked", " BUSY"}

FailureTypes == RECOVERABLE_FAILURE_TYPES
                \cup {"", None, "unknown", "error", "Timeout", " send_fail ", "NO_ACK"}

Chars == {"a", "b", " "}

Outputs == UNION { [1..n -> Chars] : n \in 0..MaxOutLen }

\* provider runtime configurations: pattern lists and stuck threshold
RuntimeConfigs ==
    { [busy_patterns |-> << <<"b">> >>, blocked_patterns |-> << <<"a">> >>,
       stuck_after_seconds |-> 180],
      [busy_patterns |-> << << >>, <<"a", "b">> >>, blocked_patterns |-> << >>,
       stuck_after_seconds |-> 0],
      [busy_patterns |-> << <<"b">>, <<"a">> >>, blocked_patterns |-> << << >> >>,
       stuck_after_seconds |-> 2],
      [busy_patterns |-> << >>, blocked_patterns |-> << <<"b", " ">>, <<"a">> >>,
       stuck_after_seconds |-> -5] }

ElapsedValues == {NoElapsed, 0, 1, 2, 179, 180}

ErrorReasons == {None, "", "timeout", "http_500"}

ForceStates == {None, "", "blocked", "unknown", "stuck", " BUSY", "bogus"}

NoCall == [fn |-> "none"]

CallClassifyAck ==
    /\ call = NoCall
    /\ \E w \in BOOLEAN, ls \in LastStates, t \in BOOLEAN :
        /\ UNCHANGED << hbvars, auditvars, lifevars >>
        /\ call' = [fn |-> "classify_heartbeat_ack",
                    waited_for_ack |-> w, last_state |-> ls, timed_out |-> t,
                    ret |-> classify_heartbeat_ack(w, ls, t)]

CallShouldRetry ==
    /\ call = NoCall
    /\ \E f \in FailureTypes, i \in 0..MaxAttemptIndex, m \in 0..MaxAttemptIndex :
        /\ UNCHANGED << hbvars, auditvars, lifevars >>
        /\ call' = [fn |-> "should_retry_heartbeat_attempt",
                    failure_type |-> f, attempt_index |-> i, max_retries |-> m,
                    ret |-> should_retry_heartbeat_attempt(f, i, m)]

CallEvaluateRuntimeState ==
    /\ call = NoCall
    /\ \E o \in Outputs, c \in RuntimeConfigs, e \in ElapsedValues,
       er \in ErrorReasons, sr \in BOOLEAN, rd \in BOOLEAN, f \in ForceStates :
        /\ UNCHANGED << hbvars, auditvars, lifevars >>
        /\ call' = [fn |-> "evaluate_runtime_state",
                    output |-> o, runtime_config |-> c, elapsed_seconds |-> e,
                    error_reason |-> er, session_running |-> sr,
                    output_readable |-> rd, force_state |-> f,
                    ret |-> evaluate_runtime_state(o, c, e, er, sr, rd, f)]

(***************************************************************************)
(* Terminal session driver as seen by the heartbeat run (tmux_helper.py,   *)
(* commands/lifecycle.py): outcomes of the multiplexer calls               *)
(***************************************************************************)
\* send_keys: False without a session, otherwise tmux decides
SendKeysOutcomes(exists) == IF exists THEN {TRUE, FALSE} ELSE {FALSE}

\* stop_session: kill succeeded (session gone) or failed (session kept);
\* False when there is nothing to stop
StopOutcomes(exists) ==
    IF exists THEN { [ok |-> TRUE, session |-> FALSE],
                     [ok |-> FALSE, session |-> TRUE] }
    ELSE { [ok |-> FALSE, session |-> FALSE] }

\* cmd_start with restore=False: refuses a running agent; otherwise fails
\* with or without a session left behind, or succeeds with a new session
StartOutcomes(exists) ==
    IF exists THEN { [rc |-> 1, session |-> TRUE, created |-> FALSE] }
    ELSE { [rc |-> 1, session |-> FALSE, created |-> FALSE],
           [rc |-> 1, session |-> TRUE, created |-> TRUE],
           [rc |-> 0, session |-> TRUE, created |-> TRUE] }

(***************************************************************************)
(* services/heartbeat_service.py                                           *)
(***************************************************************************)
\* what the wait loop of run_heartbeat_attempt can leave in
\* (last_state, timed_out): the loop is not entered when the initial
\* 3 second sleep already exceeds the timeout; it breaks on idle, blocked,
\* error and stuck; it runs out of time on any other state.  The loop tests
\* error and stuck together, and busy and unknown not at all: error stands
\* for the first pair and busy for the second
PollOutcomes(timeout) ==
    IF timeout <= 3 THEN { << None, TRUE >> }
    ELSE { << "idle", FALSE >> }
         \cup { << st, t >> : st \in {"blocked", "error"}, t \in BOOLEAN }
         \cup { << "busy", TRUE >> }

AttemptResult(send_status, ack_status, failure_type, reason_code, last_state) ==
    [send_status |-> send_status, ack_status |-> ack_status,
     failure_type |-> failure_type, reason_code |-> reason_code,
     last_state |-> last_state]

\* send_ok: what send_keys returned; poll: what the wait loop observed
run_heartbeat_attempt(send_ok, timeout, poll) ==
    IF ~send_ok
    THEN AttemptResult("fail", "not_checked", "send_fail",
                       failure_reason_code("send_fail", "not_checked", "fail"), None)
    ELSE LET waited_for_ack == timeout > 0
             last_state == IF waited_for_ack THEN poll[1] ELSE None
             timed_out == IF waited_for_ack THEN poll[2] ELSE FALSE
             c == classify_heartbeat_ack(waited_for_ack, last_state, timed_out)
         IN  AttemptResult("ok", c[1], c[2], c[3], last_state)

(***************************************************************************)
(* main.py: rollover helpers and audit                                     *)
(***************************************************************************)
_HEARTBEAT_AUTO_CONTEXT_THRESHOLD == 25

NoPercent == -1

\* nothing detected, just below the threshold, at the threshold
ContextValues == {NoPercent, 24, 25}

\* the reading taken for the audit events is copied and never compared
AuditContextValues == {NoPercent, 60}

\* mutant: a percentage equal to the threshold triggers the rollover too
_should_rollover_heartbeat_session_at_threshold(mode, percent) ==
    IF mode = "fresh" THEN TRUE
    ELSE IF mode # "auto" THEN FALSE
    ELSE IF percent = NoPercent THEN FALSE
    ELSE percent <= _HEARTBEAT_AUTO_CONTEXT_THRESHOLD

_should_rollover_heartbeat_session(mode, percent) ==
    IF mode = "fresh" THEN TRUE
    ELSE IF mode # "auto" THEN FALSE
    ELSE IF percent = NoPercent THEN FALSE
    ELSE percent < _HEARTBEAT_AUTO_CONTEXT_THRESHOLD

\* handoff file content: readable, the two status markers, stripped length
HandoffContent(readable, saved, pending, length) ==
    [readable |-> readable, saved |-> saved, pending |-> pending, length |-> length]

NoHandoff == HandoffContent(FALSE, FALSE, FALSE, 0)

\* _write_heartbeat_handoff_template: "Status: pending", well over 80 characters
HandoffTemplate == HandoffContent(TRUE, FALSE, TRUE, 200)

\* what can be in the file when it is checked: it is gone, the template is
\* untouched, the agent marked it saved, or rewrote it without a marker
HandoffContents ==
    { NoHandoff,
      HandoffTemplate,
      HandoffContent(TRUE, TRUE, FALSE, 200),
      HandoffContent(TRUE, FALSE, FALSE, 200) }

_heartbeat_handoff_saved(content) ==
    IF ~content.readable THEN FALSE
    ELSE IF content.length = 0 THEN FALSE
    ELSE IF content.saved THEN TRUE
    ELSE IF ~content.pending /\ content.length >= 80 THEN TRUE
    ELSE FALSE

_heartbeat_result(send_status, ack_status, failure_type) ==
    LET failure == StripLower(failure_type)
        send == StripLower(send_status)
        ack == StripLower(ack_status)
    IN  IF failure # "" THEN "failure"
        ELSE IF send = "ok" /\ ack = "ack" THEN "success"
        ELSE IF send # "ok" THEN "failure"
        ELSE IF ack \in {"timeout", "blocked", "no_ack"} THEN "failure"
        ELSE IF ack \in {"not_checked", ""} THEN "pending"
        ELSE "unknown"

HeartbeatId == 1

\* the event written by _append_heartbeat_audit_event
AuditEvent(heartbeat_id, send_status, ack_status, context_left, failure_type, mode, phase, attempt_no, action, reason_code) ==
    [hb_id |-> heartbeat_id, send_status |-> send_status,
     ack_status |-> ack_status, context_left |-> context_left,
     failure_type |-> failure_type, session_mode |-> mode, phase |-> phase,
     stage |-> IF phase = "" THEN "heartbeat_attempt" ELSE phase,
     result |-> _heartbeat_result(send_status, ack_status, failure_type),
     attempt |-> IF attempt_no < 0 THEN 0 ELSE attempt_no,
     recovery_action |-> action, reason_code |-> reason_code]

IsSuccess(r) == r.send_status = "ok" /\ r.ack_status \in {"ack", "not_checked"}

(***************************************************************************)
(* main.py: cmd_heartbeat_run, one action per step                         *)
(***************************************************************************)
NoResult == [none |-> TRUE]

NoLast == [send_status |-> "", ack_status |-> "", failure_type |-> "",
           reason_code |-> ""]

LastOf(r) == [send_status |-> r.send_status, ack_status |-> r.ack_status,
              failure_type |-> r.failure_type, reason_code |-> r.reason_code]

Ev(name) == [ev |-> name]

Log(e) == trace' = Append(trace, e)

Return(code) == /\ rc' = code
                /\ pc' = "done"

\* mutant: the heartbeat goes on when the session is not running
HbPreflight_without_running_check ==
    /\ pc = "start"
    /\ IF ~env.tmux THEN Return(1) /\ Log(Ev("return_no_tmux"))
       ELSE IF ~env.found THEN Return(1) /\ Log(Ev("return_not_found"))
       ELSE IF ~env.enabled THEN Return(0) /\ Log(Ev("skip_agent_disabled"))
       ELSE IF ~env.heartbeat THEN Return(1) /\ Log(Ev("return_no_heartbeat"))
       ELSE IF ~env.hb_enabled THEN Return(0) /\ Log(Ev("skip_heartbeat_disabled"))
       ELSE /\ pc' = "rollover"
            /\ UNCHANGED << rc, trace >>
    /\ UNCHANGED << env, recovery_policy, session_mode, timeout_seconds, session,
                    session_gen, context_left_percent, handoff,
                    rollover_handoff_file, prefixed, attempt, result,
                    final_attempt_result, last, recovery_action, audit, call, auditvars, lifevars >>

\* lines 1371-1406: the checks that end the run before any work is done
HbPreflight ==
    /\ pc = "start"
    /\ IF ~env.tmux THEN Return(1) /\ Log(Ev("return_no_tmux"))
       ELSE IF ~env.found THEN Return(1) /\ Log(Ev("return_not_found"))
       ELSE IF ~env.enabled THEN Return(0) /\ Log(Ev("skip_agent_disabled"))
       ELSE IF ~env.heartbeat THEN Return(1) /\ Log(Ev("return_no_heartbeat"))
       ELSE IF ~env.hb_enabled THEN Return(0) /\ Log(Ev("skip_heartbeat_disabled"))
       ELSE IF ~session THEN Return(0) /\ Log(Ev("skip_not_running"))
       ELSE /\ pc' = "rollover"
            /\ UNCHANGED << rc, trace >>
    /\ UNCHANGED << env, recovery_policy, session_mode, timeout_seconds, session,
                    session_gen, context_left_percent, handoff,
                    rollover_handoff_file, prefixed, attempt, result,
                    final_attempt_result, last, recovery_action, audit, call, auditvars, lifevars >>

\* lines 1421-1454 and 1157-1169: detect the context left (once for the audit
\* events, once more inside _maybe_rollover_heartbeat_session) and decide.
\* The history keeps the percentage the decision looked at: none in fresh
\* mode, where the decision is taken before the percentage is read
HbMaybeRollover ==
    /\ pc = "rollover"
    /\ \E seen \in AuditContextValues, seen_again \in ContextValues :
        /\ context_left_percent' = seen
        /\ IF session_mode \notin {"auto", "fresh"}
           THEN pc' = "message" /\ UNCHANGED trace
           ELSE /\ Log([ev |-> "ro_context",
                        percent |-> IF session_mode = "auto" THEN seen_again
                                    ELSE NoPercent])
                /\ IF ~_should_rollover_heartbeat_session(session_mode, seen_again)
                   THEN pc' = "message"
                   ELSE pc' = "ro_prompt"
    /\ UNCHANGED << env, recovery_policy, session_mode, timeout_seconds, session,
                    session_gen, handoff, rollover_handoff_file, prefixed,
                    attempt, result, final_attempt_result, last,
                    recovery_action, audit, rc, call, auditvars, lifevars >>

\* lines 1180-1192: write the template, send the handoff prompt
HbRolloverPrompt ==
    /\ pc = "ro_prompt"
    /\ handoff' = HandoffTemplate
    /\ \E sent \in SendKeysOutcomes(session) :
        IF sent
        THEN /\ pc' = "ro_verify"
             /\ trace' = trace \o << Ev("ro_template"), Ev("ro_prompt_sent") >>
        ELSE /\ pc' = "message"
             /\ trace' = trace \o << Ev("ro_template"), Ev("ro_prompt_failed") >>
    /\ UNCHANGED << env, recovery_policy, session_mode, timeout_seconds, session,
                    session_gen, context_left_percent, rollover_handoff_file,
                    prefixed, attempt, result, final_attempt_result, last,
                    recovery_action, audit, rc, call, auditvars, lifevars >>

\* mutant: the rollover goes on although the handoff was not saved
HbRolloverVerify_ignores_check ==
    /\ pc = "ro_verify"
    /\ \E content \in HandoffContents :
        /\ handoff' = content
        /\ pc' = "ro_stop"
        /\ Log([ev |-> "ro_check", saved |-> _heartbeat_handoff_saved(content),
                 content |-> content])
    /\ UNCHANGED << env, recovery_policy, session_mode, timeout_seconds, session,
                    session_gen, context_left_percent, rollover_handoff_file,
                    prefixed, attempt, result, final_attempt_result, last,
                    recovery_action, audit, rc, call, auditvars, lifevars >>

\* lines 1194-1203: wait for the agent, which meanwhile rewrote the file or
\* did not, then check the file
HbRolloverVerify ==
    /\ pc = "ro_verify"
    /\ \E content \in HandoffContents :
        /\ handoff' = content
        /\ Log([ev |-> "ro_check", saved |-> _heartbeat_handoff_saved(content),
                 content |-> content])
        /\ IF _heartbeat_handoff_saved(content)
           THEN pc' = "ro_stop"
           ELSE pc' = "message"
    /\ UNCHANGED << env, recovery_policy, session_mode, timeout_seconds, session,
                    session_gen, context_left_percent, rollover_handoff_file,
                    prefixed, attempt, result, final_attempt_result, last,
                    recovery_action, audit, rc, call, auditvars, lifevars >>

\* lines 1205-1207
HbRolloverStop ==
    /\ pc = "ro_stop"
    /\ \E o \in StopOutcomes(session) :
        /\ session' = o.session
        /\ IF o.ok THEN pc' = "ro_start" /\ Log(Ev("ro_stop_ok"))
           ELSE pc' = "message" /\ Log(Ev("ro_stop_failed"))
    /\ UNCHANGED << env, recovery_policy, session_mode, timeout_seconds,
                    session_gen, context_left_percent, handoff,
                    rollover_handoff_file, prefixed, attempt, result,
                    final_attempt_result, last, recovery_action, audit, rc, call, auditvars, lifevars >>

\* mutant: the handoff file is returned although the relaunch failed
HbRolloverStart_returns_file_on_failure ==
    /\ pc = "ro_start"
    /\ \E o \in StartOutcomes(session) :
        /\ session' = o.session
        /\ session_gen' = IF o.created THEN session_gen + 1 ELSE session_gen
        /\ IF o.rc # 0 THEN Log(Ev("ro_start_failed")) ELSE Log(Ev("ro_start_ok"))
        /\ rollover_handoff_file' = TRUE
    /\ pc' = "message"
    /\ UNCHANGED << env, recovery_policy, session_mode, timeout_seconds,
                    context_left_percent, handoff, prefixed, attempt, result,
                    final_attempt_result, last, recovery_action, audit, rc, call, auditvars, lifevars >>

\* lines 1209-1222
HbRolloverStart ==
    /\ pc = "ro_start"
    /\ \E o \in StartOutcomes(session) :
        /\ session' = o.session
        /\ session_gen' = IF o.created THEN session_gen + 1 ELSE session_gen
        /\ IF o.rc # 0
           THEN /\ Log(Ev("ro_start_failed"))
                /\ UNCHANGED rollover_handoff_file
           ELSE /\ Log(Ev("ro_start_ok"))
                /\ rollover_handoff_file' = TRUE
    /\ pc' = "message"
    /\ UNCHANGED << env, recovery_policy, session_mode, timeout_seconds,
                    context_left_percent, handoff, prefixed, attempt, result,
                    final_attempt_result, last, recovery_action, audit, rc, call, auditvars, lifevars >>

\* lines 1456-1474
HbBuildMessage ==
    /\ pc = "message"
    /\ prefixed' = rollover_handoff_file
    /\ attempt' = 0
    /\ pc' = "attempt"
    /\ UNCHANGED << env, recovery_policy, session_mode, timeout_seconds, session,
                    session_gen, context_left_percent, handoff,
                    rollover_handoff_file, result, final_attempt_result, last,
                    recovery_action, audit, trace, rc, call, auditvars, lifevars >>

\* lines 1476-1492: one iteration's attempt
HbRunAttempt ==
    /\ pc = "attempt"
    /\ \E sent \in SendKeysOutcomes(session), poll \in PollOutcomes(timeout_seconds) :
        LET r == run_heartbeat_attempt(sent, timeout_seconds, poll)
        IN  /\ result' = r
            /\ last' = LastOf(r)
            /\ Log([ev |-> "attempt", phase |-> "attempt", prefixed |-> prefixed,
                     res |-> LastOf(r)])
    /\ pc' = "audit"
    /\ UNCHANGED << env, recovery_policy, session_mode, timeout_seconds, session,
                    session_gen, context_left_percent, handoff,
                    rollover_handoff_file, prefixed, attempt,
                    final_attempt_result, recovery_action, audit, rc, call, auditvars, lifevars >>

\* mutant: only successful attempts are written to the audit file
HbAppendAudit_success_only ==
    /\ pc = "audit"
    /\ IF IsSuccess(result)
       THEN /\ audit' = Append(audit,
                AuditEvent(HeartbeatId, last.send_status, last.ack_status,
                           context_left_percent, last.failure_type, session_mode,
                           "attempt", attempt + 1, recovery_action,
                           last.reason_code))
            /\ Log(Ev("audit"))
       ELSE UNCHANGED << audit, trace >>
    /\ final_attempt_result' = result
    /\ pc' = "decide"
    /\ UNCHANGED << env, recovery_policy, session_mode, timeout_seconds, session,
                    session_gen, context_left_percent, handoff,
                    rollover_handoff_file, prefixed, attempt, result, last,
                    recovery_action, rc, call, auditvars, lifevars >>

\* lines 1494-1510
HbAppendAudit ==
    /\ pc = "audit"
    /\ audit' = Append(audit,
            AuditEvent(HeartbeatId, last.send_status, last.ack_status,
                       context_left_percent, last.failure_type, session_mode,
                       "attempt", attempt + 1, recovery_action, last.reason_code))
    /\ Log(Ev("audit"))
    /\ final_attempt_result' = result
    /\ pc' = "decide"
    /\ UNCHANGED << env, recovery_policy, session_mode, timeout_seconds, session,
                    session_gen, context_left_percent, handoff,
                    rollover_handoff_file, prefixed, attempt, result, last,
                    recovery_action, rc, call, auditvars, lifevars >>

\* mutant: the loop retries after a successful attempt as well
HbDecide_retries_success ==
    /\ pc = "decide"
    /\ IF attempt < recovery_policy.max_retries
       THEN IF recovery_policy.retry_backoff_seconds > 0
            THEN pc' = "backoff" /\ UNCHANGED attempt
            ELSE pc' = "attempt" /\ attempt' = attempt + 1
       ELSE pc' = "post" /\ UNCHANGED attempt
    /\ UNCHANGED << env, recovery_policy, session_mode, timeout_seconds, session,
                    session_gen, context_left_percent, handoff,
                    rollover_handoff_file, prefixed, result,
                    final_attempt_result, last, recovery_action, audit, trace,
                    rc, call, auditvars, lifevars >>

\* lines 1512-1524: break on success, continue when a retry is due, else break
HbDecide ==
    /\ pc = "decide"
    /\ IF last.send_status = "ok" /\ last.ack_status \in {"ack", "not_checked"}
       THEN pc' = "post" /\ UNCHANGED attempt
       ELSE IF should_retry_heartbeat_attempt(last.failure_type, attempt,
                                              recovery_policy.max_retries)
       THEN IF recovery_policy.retry_backoff_seconds > 0
            THEN pc' = "backoff" /\ UNCHANGED attempt
            ELSE IF attempt + 1 < recovery_policy.max_retries + 1
            THEN pc' = "attempt" /\ attempt' = attempt + 1
            ELSE pc' = "post" /\ UNCHANGED attempt
       ELSE pc' = "post" /\ UNCHANGED attempt
    /\ UNCHANGED << env, recovery_policy, session_mode, timeout_seconds, session,
                    session_gen, context_left_percent, handoff,
                    rollover_handoff_file, prefixed, result,
                    final_attempt_result, last, recovery_action, audit, trace,
                    rc, call, auditvars, lifevars >>

\* lines 1520-1523: time.sleep(backoff_seconds), then the next iteration if
\* the range has one
HbBackoff ==
    /\ pc = "backoff"
    /\ Log(Ev("backoff"))
    /\ IF attempt + 1 < recovery_policy.max_retries + 1
       THEN pc' = "attempt" /\ attempt' = attempt + 1
       ELSE pc' = "post" /\ UNCHANGED attempt
    /\ UNCHANGED << env, recovery_policy, session_mode, timeout_seconds, session,
                    session_gen, context_left_percent, handoff,
                    rollover_handoff_file, prefixed, result,
                    final_attempt_result, last, recovery_action, audit, rc, call, auditvars, lifevars >>

\* mutant: the fallback is applied whatever fallback_mode says
HbAfterLoop_always_falls_back ==
    /\ pc = "post"
    /\ IF final_attempt_result = NoResult
       THEN /\ Return(1) /\ Log(Ev("return_not_executed"))
            /\ UNCHANGED << last, recovery_action >>
       ELSE /\ last' = LastOf(final_attempt_result)
            /\ IF IsSuccess(final_attempt_result)
               THEN /\ Return(0) /\ Log(Ev("return_success"))
                    /\ UNCHANGED recovery_action
               ELSE /\ recovery_action' = "fallback_fresh"
                    /\ pc' = "fb_restart"
                    /\ UNCHANGED << rc, trace >>
    /\ UNCHANGED << env, recovery_policy, session_mode, timeout_seconds, session,
                    session_gen, context_left_percent, handoff,
                    rollover_handoff_file, prefixed, attempt, result,
                    final_attempt_result, audit, call, auditvars, lifevars >>

\* lines 1526-1540: after the loop
HbAfterLoop ==
    /\ pc = "post"
    /\ IF final_attempt_result = NoResult
       THEN /\ Return(1) /\ Log(Ev("return_not_executed"))
            /\ UNCHANGED << last, recovery_action >>
       ELSE /\ last' = LastOf(final_attempt_result)
            /\ IF IsSuccess(final_attempt_result)
               THEN /\ Return(0) /\ Log(Ev("return_success"))
                    /\ UNCHANGED recovery_action
               ELSE IF recovery_policy.fallback_mode = "fresh"
               THEN /\ recovery_action' = "fallback_fresh"
                    /\ pc' = "fb_restart"
                    /\ UNCHANGED << rc, trace >>
               ELSE /\ pc' = "final"
                    /\ UNCHANGED << rc, trace, recovery_action >>
    /\ UNCHANGED << env, recovery_policy, session_mode, timeout_seconds, session,
                    session_gen, context_left_percent, handoff,
                    rollover_handoff_file, prefixed, attempt, result,
                    final_attempt_result, audit, call, auditvars, lifevars >>

\* lines 1544 and 1573-1582 with restart_heartbeat_session_fresh: stop (its
\* result is not looked at), pause, cmd_start
HbFallbackRestart ==
    /\ pc = "fb_restart"
    /\ \E st \in StopOutcomes(session) :
       \E o \in StartOutcomes(st.session) :
        /\ session' = o.session
        /\ session_gen' = IF o.created THEN session_gen + 1 ELSE session_gen
        /\ IF o.rc = 0
           THEN /\ pc' = "fb_attempt"
                /\ Log(Ev("restart_ok"))
                /\ UNCHANGED last
           ELSE /\ pc' = "final"
                /\ Log(Ev("restart_failed"))
                /\ LET failure_type == IF last.failure_type = "" THEN "timeout"
                                       ELSE last.failure_type
                   IN  last' = [send_status |-> "fail", ack_status |-> "no_ack",
                                failure_type |-> failure_type,
                                reason_code |->
                                    failure_reason_code(failure_type, "no_ack", "fail")]
    /\ UNCHANGED << env, recovery_policy, session_mode, timeout_seconds,
                    context_left_percent, handoff, rollover_handoff_file,
                    prefixed, attempt, result, final_attempt_result,
                    recovery_action, audit, rc, call, auditvars, lifevars >>

\* lines 1545-1557
HbFallbackAttempt ==
    /\ pc = "fb_attempt"
    /\ \E sent \in SendKeysOutcomes(session), poll \in PollOutcomes(timeout_seconds) :
        LET r == run_heartbeat_attempt(sent, timeout_seconds, poll)
        IN  /\ result' = r
            /\ last' = LastOf(r)
            /\ Log([ev |-> "attempt", phase |-> "fallback", prefixed |-> prefixed,
                     res |-> LastOf(r)])
    /\ pc' = "fb_audit"
    /\ UNCHANGED << env, recovery_policy, session_mode, timeout_seconds, session,
                    session_gen, context_left_percent, handoff,
                    rollover_handoff_file, prefixed, attempt,
                    final_attempt_result, recovery_action, audit, rc, call, auditvars, lifevars >>

\* lines 1558-1572
HbFallbackAudit ==
    /\ pc = "fb_audit"
    /\ audit' = Append(audit,
            AuditEvent(HeartbeatId, last.send_status, last.ack_status,
                       context_left_percent, last.failure_type, "fresh",
                       "fallback", recovery_policy.max_retries + 2,
                       recovery_action, last.reason_code))
    /\ Log(Ev("audit"))
    /\ pc' = "final"
    /\ UNCHANGED << env, recovery_policy, session_mode, timeout_seconds, session,
                    session_gen, context_left_percent, handoff,
                    rollover_handoff_file, prefixed, attempt, result,
                    final_attempt_result, last, recovery_action, rc, call, auditvars, lifevars >>

\* mutant: the final test looks at send_status only
HbFinal_send_only ==
    /\ pc = "final"
    /\ IF last.send_status = "ok"
       THEN Return(0) /\ Log(Ev("return_recovered"))
       ELSE IF recovery_policy.notify_on_failure
       THEN /\ pc' = "notify"
            /\ UNCHANGED << rc, trace >>
       ELSE Return(1) /\ Log(Ev("return_failure"))
    /\ UNCHANGED << env, recovery_policy, session_mode, timeout_seconds, session,
                    session_gen, context_left_percent, handoff,
                    rollover_handoff_file, prefixed, attempt, result,
                    final_attempt_result, last, recovery_action, audit, call, auditvars, lifevars >>

\* mutant: the notifier is called on failure whatever notify_on_failure says
HbFinal_ignores_notify_flag ==
    /\ pc = "final"
    /\ IF last.send_status = "ok" /\ last.ack_status \in {"ack", "not_checked"}
       THEN Return(0) /\ Log(Ev("return_recovered"))
       ELSE /\ pc' = "notify"
            /\ UNCHANGED << rc, trace >>
    /\ UNCHANGED << env, recovery_policy, session_mode, timeout_seconds, session,
                    session_gen, context_left_percent, handoff,
                    rollover_handoff_file, prefixed, attempt, result,
                    final_attempt_result, last, recovery_action, audit, call, auditvars, lifevars >>

\* lines 1584-1588 and 1598-1601
HbFinal ==
    /\ pc = "final"
    /\ IF last.send_status = "ok" /\ last.ack_status \in {"ack", "not_checked"}
       THEN Return(0) /\ Log(Ev("return_recovered"))
       ELSE IF recovery_policy.notify_on_failure
       THEN /\ pc' = "notify"
            /\ UNCHANGED << rc, trace >>
       ELSE Return(1) /\ Log(Ev("return_failure"))
    /\ UNCHANGED << env, recovery_policy, session_mode, timeout_seconds, session,
                    session_gen, context_left_percent, handoff,
                    rollover_handoff_file, prefixed, attempt, result,
                    final_attempt_result, last, recovery_action, audit, call, auditvars, lifevars >>

\* lines 1589-1601: _notify_heartbeat_failure, then return 1
HbNotify ==
    /\ pc = "notify"
    /\ trace' = trace \o << Ev("notify"), Ev("return_failure") >>
    /\ Return(1)
    /\ UNCHANGED << env, recovery_policy, session_mode, timeout_seconds, session,
                    session_gen, context_left_percent, handoff,
                    rollover_handoff_file, prefixed, attempt, result,
                    final_attempt_result, last, recovery_action, audit, call, auditvars, lifevars >>

DispatchStates == RUNTIME_STATES \cup {"Blocked"}

DispatchElapsed == {NoElapsed, 0, 29, 30, 899, 900, 1199, 1200}

DispatchTimeouts == {NoTimeout, 30, 1200}

CallDecideRuntimeAction ==
    /\ call = NoCall
    /\ \E s \in DispatchStates, e \in DispatchElapsed, t \in DispatchTimeouts,
          r \in {"", "timeout"} :
        /\ UNCHANGED << hbvars, auditvars, lifevars >>
        /\ call' = [fn |-> "_decide_runtime_action",
                    state |-> s, elapsed |-> e, timeout_seconds |-> t, reason |-> r,
                    ret |-> _decide_runtime_action(s, e, t, r)]

(***************************************************************************)
(* Specifications                                                          *)
(***************************************************************************)
TimeoutValues == {0, 2, 30}

\* the audit directory and the clock of SpecAudit, at rest elsewhere
NoAuditDir == << >>

Epoch == [sec |-> 0, micro |-> 0]

BackoffValues == {0, 3}

\* the tmux server and the provider session store of SpecTmux and
\* SpecStart, at rest elsewhere
NoPanes == {}

NoProvider == [record |-> [kind |-> "absent", session_id |-> ""], files |-> {}]

LifeAtRest ==
    /\ tmux = NoPanes
    /\ provider = NoProvider

HbInitial ==
    /\ pc = "start"
    /\ session_gen = 0
    /\ context_left_percent = NoPercent
    /\ handoff = NoHandoff
    /\ rollover_handoff_file = FALSE
    /\ prefixed = FALSE
    /\ attempt = 0
    /\ result = NoResult
    /\ final_attempt_result = NoResult
    /\ last = NoLast
    /\ recovery_action = ""
    /\ audit = << >>
    /\ trace = << >>
    /\ rc = -1

Init ==
    /\ env \in [tmux : BOOLEAN, found : BOOLEAN, enabled : BOOLEAN,
                heartbeat : BOOLEAN, hb_enabled : BOOLEAN]
    /\ recovery_policy \in [max_retries : 0..MaxRetriesBound,
                            retry_backoff_seconds : BackoffValues,
                            fallback_mode : {"none", "fresh"},
                            notify_on_failure : BOOLEAN]
    /\ session_mode \in {"restore", "auto", "fresh"}
    /\ timeout_seconds \in TimeoutValues
    /\ session \in BOOLEAN
    /\ HbInitial
    /\ call = NoCall
    /\ audit_dir = NoAuditDir
    /\ now = Epoch
    /\ LifeAtRest

Next ==
    \/ HbPreflight
    \/ HbMaybeRollover
    \/ HbRolloverPrompt
    \/ HbRolloverVerify
    \/ HbRolloverStop
    \/ HbRolloverStart
    \/ HbBuildMessage
    \/ HbRunAttempt
    \/ HbAppendAudit
    \/ HbDecide
    \/ HbBackoff
    \/ HbAfterLoop
    \/ HbFallbackRestart
    \/ HbFallbackAttempt
    \/ HbFallbackAudit
    \/ HbFinal
    \/ HbNotify

Spec == Init /\ [][Next]_vars

\* the pure classifiers: no heartbeat run is in progress
InitPure ==
    /\ env = [tmux |-> TRUE, found |-> TRUE, enabled |-> TRUE,
              heartbeat |-> TRUE, hb_enabled |-> TRUE]
    /\ recovery_policy = [max_retries |-> 1, retry_backoff_seconds |-> 3,
                          fallback_mode |-> "fresh", notify_on_failure |-> FALSE]
    /\ session_mode = "restore"
    /\ timeout_seconds = 0
    /\ session = FALSE
    /\ HbInitial
    /\ call = NoCall
    /\ audit_dir = NoAuditDir
    /\ now = Epoch
    /\ LifeAtRest

NextPure ==
    \/ CallClassifyAck
    \/ CallShouldRetry
    \/ CallEvaluateRuntimeState
    \/ CallDecideRuntimeAction

SpecPure == InitPure /\ [][NextPure]_vars

(***************************************************************************)
(* main.py: the heartbeat audit log (append and trace read)                *)
(***************************************************************************)
MaxAuditEvents == 2

\* agent configuration file ids, as texts
AgentFileIds == { <<"E", "_", "1">>, <<"e", "-", "2">> }

LowerChar(ch) == IF ch = "E" THEN "e" ELSE ch

LowerText(s) == [i \in 1..Len(s) |-> LowerChar(s[i])]

RECURSIVE StripText(_)

StripText(s) ==
    IF s = << >> THEN s
    ELSE IF Head(s) = " " THEN StripText(Tail(s))
    ELSE IF s[Len(s)] = " " THEN StripText(SubSeq(s, 1, Len(s) - 1))
    ELSE s

get_agent_id(file_id) ==
    [i \in 1..Len(file_id) |->
        IF LowerChar(file_id[i]) = "_" THEN "-" ELSE LowerChar(file_id[i])]

AgentIds == { get_agent_id(f) : f \in AgentFileIds }

NoAgent == << >>

UnknownAgent == <<"u", "n", "k", "n", "o", "w", "n">>

\* the class [a-z0-9_-] over the characters in use
SafeChars == {"e", "u", "n", "k", "o", "w", "0", "1", "2", "_", "-"}

RECURSIVE ReplaceUnsafeRuns(_, _)

\* re.sub(r"[^a-z0-9_-]+", "-", text); in_run: the previous character was unsafe
ReplaceUnsafeRuns(text, in_run) ==
    IF text = << >> THEN << >>
    ELSE IF Head(text) \in SafeChars
         THEN << Head(text) >> \o ReplaceUnsafeRuns(Tail(text), FALSE)
         ELSE IF in_run THEN ReplaceUnsafeRuns(Tail(text), TRUE)
              ELSE << "-" >> \o ReplaceUnsafeRuns(Tail(text), TRUE)

\* the name (without .jsonl) of the audit file of an agent
_heartbeat_audit_file(agent_id) ==
    LET given == IF agent_id = NoAgent THEN UnknownAgent ELSE agent_id
        lowered == LowerText(StripText(given))
        safe_agent_id == IF lowered = << >> THEN UnknownAgent ELSE lowered
    IN  ReplaceUnsafeRuns(safe_agent_id, FALSE)

\* timestamp texts: the seconds and the fraction that isoformat() prints
NoFraction == -1

_utc_now_iso(t) ==
    [sec |-> t.sec, frac |-> IF t.micro = 0 THEN NoFraction ELSE t.micro]

\* no text given, a text that is no timestamp, and no time
NoText == [sec |-> -1, frac |-> NoFraction]

InvalidText == [sec |-> -2, frac |-> NoFraction]

NoTime == [sec |-> -1, micro |-> 0]

_parse_iso8601_utc(text) ==
    IF text = NoText \/ text = InvalidText THEN NoTime
    ELSE [sec |-> text.sec,
          micro |-> IF text.frac = NoFraction THEN 0 ELSE text.frac]

\* a <= b on parsed times
TimeLeq(a, b) == a.sec < b.sec \/ (a.sec = b.sec /\ a.micro <= b.micro)

\* the order of str(timestamp): "." sorts before "Z", so at equal seconds a
\* text with a fraction sorts before the text without one
TimestampSortKey(text) ==
    text.sec * 1000001 + (IF text.frac = NoFraction THEN 1000000 ELSE text.frac)

\* the clock after the next reading: half a second or forty seconds later
LaterTimes(t) ==
    { IF t.micro = 0 THEN [sec |-> t.sec, micro |-> 500000]
                     ELSE [sec |-> t.sec + 1, micro |-> 0],
      [sec |-> t.sec + 40, micro |-> t.micro] }

\* lines of an audit file
JsonLine(value) == [kind |-> "dict", value |-> value]

NotJsonLine == [kind |-> "text", value |-> "not-json"]

BlankLine == [kind |-> "text", value |-> ""]

JsonListLine == [kind |-> "list", value |-> "[]"]

IsEventLine(line) == line.kind = "dict"

WriteLine(dir, file, line) ==
    [f \in DOMAIN dir \cup {file} |->
        IF f # file THEN dir[f]
        ELSE IF file \in DOMAIN dir THEN Append(dir[file], line)
        ELSE << line >>]

\* the event with the duration written as supplied
HeartbeatAuditEvent_unclamped(clock, kw) ==
    [timestamp |-> IF kw.timestamp # NoText THEN kw.timestamp
                   ELSE _utc_now_iso(clock),
     agent_id |-> kw.agent_id,
     duration_ms |-> kw.duration_ms,
     duration |-> kw.duration_ms]
    @@ AuditEvent(kw.heartbeat_id, kw.send_status, kw.ack_status,
                  kw.context_left, kw.failure_type, kw.session_mode,
                  kw.phase, kw.attempt, kw.recovery_action, kw.reason_code)

\* the event of one append, and the directory after it
HeartbeatAuditEvent(clock, kw) ==
    LET duration_value == IF kw.duration_ms < 0 THEN 0 ELSE kw.duration_ms
    IN  [timestamp |-> IF kw.timestamp # NoText THEN kw.timestamp
                       ELSE _utc_now_iso(clock),
         agent_id |-> kw.agent_id,
         duration_ms |-> duration_value,
         duration |-> duration_value]
        @@ AuditEvent(kw.heartbeat_id, kw.send_status, kw.ack_status,
                      kw.context_left, kw.failure_type, kw.session_mode,
                      kw.phase, kw.attempt, kw.recovery_action, kw.reason_code)

\* the append with the file opened for writing instead of appending
_append_heartbeat_audit_event_rewriting(dir, clock, kw) ==
    [f \in DOMAIN dir \cup {_heartbeat_audit_file(kw.agent_id)} |->
        IF f # _heartbeat_audit_file(kw.agent_id) THEN dir[f]
        ELSE << JsonLine(HeartbeatAuditEvent(clock, kw)) >>]

_append_heartbeat_audit_event(dir, clock, kw) ==
    WriteLine(dir, _heartbeat_audit_file(kw.agent_id),
              JsonLine(HeartbeatAuditEvent(clock, kw)))

HeartbeatIds == {"hb-1", "hb-2"}

\* attempt outcomes as cmd_heartbeat_run and direct callers pass them
ProfileAck ==
    [send_status |-> "ok", ack_status |-> "ack", failure_type |-> "",
     reason_code |-> "", duration_ms |-> 1200, context_left |-> 60,
     session_mode |-> "restore", phase |-> "attempt", attempt |-> 1,
     recovery_action |-> ""]

ProfileTimeout ==
    [send_status |-> "ok", ack_status |-> "timeout", failure_type |-> "timeout",
     reason_code |-> "ack_timeout", duration_ms |-> 30000, context_left |-> NoPercent,
     session_mode |-> "restore", phase |-> "attempt", attempt |-> 1,
     recovery_action |-> ""]

ProfileFallback ==
    [send_status |-> "ok", ack_status |-> "ack", failure_type |-> "",
     reason_code |-> "", duration_ms |-> 700, context_left |-> 24,
     session_mode |-> "fresh", phase |-> "fallback", attempt |-> 3,
     recovery_action |-> "fallback_fresh"]

ProfilePending ==
    [send_status |-> "ok", ack_status |-> "not_checked", failure_type |-> "",
     reason_code |-> "", duration_ms |-> -5, context_left |-> NoPercent,
     session_mode |-> "auto", phase |-> "", attempt |-> -1,
     recovery_action |-> ""]

AppendKw(file_id, heartbeat_id, profile) ==
    [agent_id |-> get_agent_id(file_id), heartbeat_id |-> heartbeat_id,
     timestamp |-> NoText] @@ profile

AppendInputs ==
    { AppendKw(<<"E", "_", "1">>, "hb-1", ProfileTimeout),
      AppendKw(<<"E", "_", "1">>, "hb-1", ProfileAck),
      AppendKw(<<"E", "_", "1">>, "hb-2", ProfileFallback),
      AppendKw(<<"e", "-", "2">>, "hb-1", ProfileAck),
      AppendKw(<<"e", "-", "2">>, "hb-1", ProfilePending),
      AppendKw(<<"e", "-", "2">>, "hb-2", ProfileTimeout) }

EventCount(dir) ==
    Cardinality({ << f, i >> \in UNION { {f} \X (1..Len(dir[f])) : f \in DOMAIN dir } :
                    IsEventLine(dir[f][i]) })

\* one command runs at a time; CommandExit ends it
AuditAppend ==
    /\ call = NoCall
    /\ EventCount(audit_dir) < MaxAuditEvents
    /\ \E kw \in AppendInputs, t \in LaterTimes(now) :
        /\ now' = t
        /\ audit_dir' = _append_heartbeat_audit_event(audit_dir, t, kw)
        /\ call' = [fn |-> "_append_heartbeat_audit_event", kw |-> kw,
                    file |-> _heartbeat_audit_file(kw.agent_id),
                    event |-> HeartbeatAuditEvent(t, kw)]
        /\ UNCHANGED << hbvars, lifevars >>

_HEARTBEAT_TRACE_MAX_LIMIT == 5000

\* code points of the characters in use
CharCode(ch) ==
    CASE ch = " " -> 32 [] ch = "-" -> 45 [] ch = "0" -> 48 [] ch = "1" -> 49
      [] ch = "2" -> 50 [] ch = "E" -> 69 [] ch = "_" -> 95 [] ch = "e" -> 101
      [] ch = "k" -> 107 [] ch = "n" -> 110 [] ch = "o" -> 111
      [] ch = "u" -> 117 [] ch = "w" -> 119

RECURSIVE TextLess(_, _)

TextLess(a, b) ==
    IF b = << >> THEN FALSE
    ELSE IF a = << >> THEN TRUE
    ELSE IF Head(a) # Head(b) THEN CharCode(Head(a)) < CharCode(Head(b))
    ELSE TextLess(Tail(a), Tail(b))

RECURSIVE SortedNames(_)

\* sorted(audit_dir.glob("*.jsonl"))
SortedNames(names) ==
    IF names = {} THEN << >>
    ELSE LET least == CHOOSE x \in names : \A y \in names \ {x} : TextLess(x, y)
         IN  << least >> \o SortedNames(names \ {least})

RECURSIVE InsertByTimestamp(_, _, _)

\* one step of the stable sort by str(timestamp)
InsertByTimestamp(sorted, event, reverse) ==
    IF sorted = << >> THEN << event >>
    ELSE IF \/ reverse /\ TimestampSortKey(Head(sorted).timestamp) < TimestampSortKey(event.timestamp)
            \/ ~reverse /\ TimestampSortKey(Head(sorted).timestamp) > TimestampSortKey(event.timestamp)
         THEN << event >> \o sorted
         ELSE << Head(sorted) >> \o InsertByTimestamp(Tail(sorted), event, reverse)

RECURSIVE SortByTimestamp(_, _)

SortByTimestamp(events, reverse) ==
    IF events = << >> THEN << >>
    ELSE InsertByTimestamp(SortByTimestamp(SubSeq(events, 1, Len(events) - 1), reverse),
                           events[Len(events)], reverse)

RECURSIVE ConcatFiles(_, _)

\* the lines of the files that exist, file by file
ConcatFiles(dir, files) ==
    IF files = << >> THEN << >>
    ELSE (IF Head(files) \in DOMAIN dir THEN dir[Head(files)] ELSE << >>)
         \o ConcatFiles(dir, Tail(files))

\* the payloads of the lines that json.loads reads as a dict
Payloads(lines) ==
    LET parsed == SelectSeq(lines, LAMBDA line : line.kind = "dict")
    IN  [i \in 1..Len(parsed) |-> parsed[i].value]

TraceLimit(limit) ==
    LET asked == IF limit = 0 THEN 20 ELSE limit
        capped == IF asked > _HEARTBEAT_TRACE_MAX_LIMIT
                  THEN _HEARTBEAT_TRACE_MAX_LIMIT ELSE asked
    IN  IF capped < 1 THEN 1 ELSE capped

FirstN(s, n) == IF Len(s) <= n THEN s ELSE SubSeq(s, 1, n)

_read_heartbeat_audit_events(dir, heartbeat_id, agent_id, since, until, limit) ==
    LET trace_limit == TraceLimit(limit)
        hb_filter == IF heartbeat_id = None THEN "" ELSE heartbeat_id
        agent_filter == LowerText(StripText(agent_id))
        files == IF agent_filter # NoAgent
                 THEN << _heartbeat_audit_file(agent_filter) >>
                 ELSE SortedNames(DOMAIN dir)
        Keep(payload) ==
            LET event_ts == _parse_iso8601_utc(payload.timestamp)
            IN  /\ hb_filter = "" \/ payload.hb_id = hb_filter
                /\ agent_filter = NoAgent \/ LowerText(payload.agent_id) = agent_filter
                /\ since = NoTime \/ (event_ts # NoTime /\ TimeLeq(since, event_ts))
                /\ until = NoTime \/ (event_ts # NoTime /\ TimeLeq(event_ts, until))
        events == SelectSeq(Payloads(ConcatFiles(dir, files)), Keep)
    IN  FirstN(SortByTimestamp(events, TRUE), trace_limit)

AgentPrefix == <<"a", "g", "e", "n", "t", "-">>

\* the agent argument of a command; an id that agent_config resolves gives
\* get_agent_id of its file id, which is the same text
_resolve_trace_agent_id(agent_value) ==
    LET value == StripText(agent_value)
        lowered == LowerText(value)
        normalized == IF Len(lowered) >= 6 /\ SubSeq(lowered, 1, 6) = AgentPrefix
                      THEN SubSeq(lowered, 7, Len(lowered)) ELSE lowered
    IN  IF value = << >> THEN NoAgent
        ELSE [i \in 1..Len(normalized) |->
                IF normalized[i] = "_" THEN "-" ELSE normalized[i]]

_resolve_trace_time_range(since_text, until_text) ==
    LET since == _parse_iso8601_utc(since_text)
        until == _parse_iso8601_utc(until_text)
    IN  IF since_text # NoText /\ since = NoTime
        THEN [error |-> "invalid_since", since |-> NoTime, until |-> NoTime]
        ELSE IF until_text # NoText /\ until = NoTime
        THEN [error |-> "invalid_until", since |-> NoTime, until |-> NoTime]
        ELSE IF since # NoTime /\ until # NoTime /\ ~TimeLeq(since, until)
        THEN [error |-> "since_later_than_until", since |-> NoTime, until |-> NoTime]
        ELSE [error |-> "", since |-> since, until |-> until]

cmd_heartbeat_trace(dir, args) ==
    LET range == _resolve_trace_time_range(args.since, args.until)
    IN  IF range.error # ""
        THEN [rc |-> 1, error |-> range.error, read |-> FALSE, events |-> << >>]
        ELSE [rc |-> 0, error |-> "", read |-> TRUE,
              events |-> _read_heartbeat_audit_events(
                             dir, args.hb_id, _resolve_trace_agent_id(args.agent),
                             range.since, range.until, args.limit)]

\* the timestamps in the log, as a caller may type them
LoggedTexts(dir) ==
    { dir[f][i].value.timestamp :
        << f, i >> \in { << g, j >> \in UNION { {h} \X (1..Len(dir[h])) : h \in DOMAIN dir } :
                            IsEventLine(dir[g][j]) } }

TraceLimits == {-3, 0, 1, 6000}

TraceFilters ==
    { [hb_id |-> None, agent |-> NoAgent], [hb_id |-> "hb-1", agent |-> NoAgent],
      [hb_id |-> None, agent |-> <<"E", "_", "1">>],
      [hb_id |-> "hb-1", agent |-> <<"e", "-", "2">>] }

TraceRequests(dir) ==
    { [since |-> s, until |-> u, limit |-> 20] @@ f :
        f \in TraceFilters, s \in {NoText} \cup LoggedTexts(dir),
        u \in {NoText} \cup LoggedTexts(dir) }
    \cup { [hb_id |-> None, agent |-> NoAgent, since |-> s, until |-> u, limit |-> 20] :
            << s, u >> \in {<< InvalidText, NoText >>, << NoText, InvalidText >>} }
    \cup { [hb_id |-> None, agent |-> NoAgent, since |-> NoText, until |-> NoText,
            limit |-> l] : l \in TraceLimits }

CmdHeartbeatTrace ==
    /\ call = NoCall
    /\ \E args \in TraceRequests(audit_dir) :
        call' = [fn |-> "cmd_heartbeat_trace", args |-> args,
                 ret |-> cmd_heartbeat_trace(audit_dir, args)]
    /\ UNCHANGED << hbvars, auditvars, lifevars >>

(***************************************************************************)
(* heartbeat_slo.py: the SLO summary                                       *)
(***************************************************************************)
_safe_agent_id(agent_value) ==
    LET given == IF agent_value = NoAgent THEN UnknownAgent ELSE agent_value
        lowered == LowerText(StripText(given))
        safe == IF lowered = << >> THEN UnknownAgent ELSE lowered
    IN  [i \in 1..Len(safe) |-> IF safe[i] \in SafeChars THEN safe[i] ELSE "-"]

load_heartbeat_events(dir, agent_id, since, until) ==
    LET files == IF agent_id # NoAgent THEN << _safe_agent_id(agent_id) >>
                 ELSE SortedNames(DOMAIN dir)
        Keep(payload) ==
            LET event_time == _parse_iso8601_utc(payload.timestamp)
            IN  /\ agent_id = NoAgent \/ LowerText(payload.agent_id) = LowerText(agent_id)
                /\ since = NoTime \/ (event_time # NoTime /\ TimeLeq(since, event_time))
                /\ until = NoTime \/ (event_time # NoTime /\ TimeLeq(event_time, until))
    IN  SortByTimestamp(SelectSeq(Payloads(ConcatFiles(dir, files)), Keep), FALSE)

_failure_bucket(event) ==
    LET failure_type == StripLower(event.failure_type)
        send_status == StripLower(event.send_status)
        ack_status == StripLower(event.ack_status)
    IN  IF failure_type # "" THEN failure_type
        ELSE IF send_status # "ok" THEN "send_fail"
        ELSE IF ack_status \in {"timeout", "blocked", "no_ack"} THEN ack_status
        ELSE IF ack_status \in {"ack", "not_checked", ""} THEN ""
        ELSE "unknown"

_run_result(final_event) ==
    LET result_text == StripLower(final_event.result)
    IN  IF result_text \in {"success", "failure", "pending"} THEN result_text
        ELSE IF _failure_bucket(final_event) # "" THEN "failure"
        ELSE IF StripLower(final_event.send_status) = "ok"
                /\ StripLower(final_event.ack_status) = "ack" THEN "success"
        ELSE "pending"

RECURSIVE SortedInts(_)

SortedInts(values) ==
    IF values = << >> THEN << >>
    ELSE LET least == CHOOSE i \in 1..Len(values) :
                          \A j \in 1..Len(values) : values[i] <= values[j]
         IN  << values[least] >>
             \o SortedInts([k \in 1..(Len(values) - 1) |->
                               IF k < least THEN values[k] ELSE values[k + 1]])

\* linear interpolation between order statistics, rounded to an integer
_percentile(values, percentile) ==
    IF values = << >> THEN 0
    ELSE LET ordered == SortedInts([i \in 1..Len(values) |->
                                       IF values[i] < 0 THEN 0 ELSE values[i]])
             rank100 == (Len(ordered) - 1) * percentile
             lower == rank100 \div 100
             upper == IF lower + 1 <= Len(ordered) - 1 THEN lower + 1
                      ELSE Len(ordered) - 1
         IN  IF percentile <= 0 THEN SortedInts(values)[1]
             ELSE IF percentile >= 100 THEN SortedInts(values)[Len(values)]
             ELSE IF lower = upper THEN ordered[lower + 1]
             ELSE (ordered[lower + 1] * (upper * 100 - rank100)
                   + ordered[upper + 1] * (rank100 - lower * 100) + 50) \div 100

SecondsPerDay == 86400

_default_window(clock, window) ==
    [since |-> [sec |-> clock.sec - (IF window = "weekly" THEN 7 ELSE 1) * SecondsPerDay,
                micro |-> clock.micro],
     until |-> clock]

\* str(window or "daily").strip().lower() on the spellings in use
NormalizeWindow(window) ==
    CASE window = None -> "daily"
      [] window = "" -> "daily"
      [] window = " Weekly " -> "weekly"
      [] OTHER -> window

\* the window check without the comparison of since and until
_normalize_window_unordered(clock, window, since, until) ==
    LET normalized == NormalizeWindow(window)
        defaults == _default_window(clock, normalized)
    IN  IF normalized \notin {"daily", "weekly"}
        THEN [error |-> "unsupported_window", since |-> NoTime, until |-> NoTime,
              window |-> normalized]
        ELSE [error |-> "", window |-> normalized,
              since |-> IF since # NoTime THEN since ELSE defaults.since,
              until |-> IF until # NoTime THEN until ELSE defaults.until]

_normalize_window(clock, window, since, until) ==
    LET normalized == NormalizeWindow(window)
        defaults == _default_window(clock, normalized)
        effective_since == IF since # NoTime THEN since ELSE defaults.since
        effective_until == IF until # NoTime THEN until ELSE defaults.until
    IN  IF normalized \notin {"daily", "weekly"}
        THEN [error |-> "unsupported_window", since |-> NoTime, until |-> NoTime,
              window |-> normalized]
        ELSE IF ~TimeLeq(effective_since, effective_until)
        THEN [error |-> "since_later_than_until", since |-> NoTime, until |-> NoTime,
              window |-> normalized]
        ELSE [error |-> "", since |-> effective_since, until |-> effective_until,
              window |-> normalized]

RunKey(event) == << LowerText(StripText(event.agent_id)), event.hb_id >>

RECURSIVE RunKeys(_)

\* the keys of runs.setdefault, in the order of their first event
RunKeys(events) ==
    IF events = << >> THEN << >>
    ELSE LET before == RunKeys(SubSeq(events, 1, Len(events) - 1))
             event == events[Len(events)]
         IN  IF event.hb_id = "" \/ RunKey(event)[1] = << >> THEN before
             ELSE IF \E i \in 1..Len(before) : before[i] = RunKey(event) THEN before
             ELSE Append(before, RunKey(event))

RunGroup(events, key) ==
    SortByTimestamp(SelectSeq(events, LAMBDA e : e.hb_id # "" /\ RunKey(e) = key), FALSE)

RECURSIVE SumDurations(_)

SumDurations(group) ==
    IF group = << >> THEN 0
    ELSE (IF Head(group).duration_ms < 0 THEN 0 ELSE Head(group).duration_ms)
         + SumDurations(Tail(group))

SpanMs(started, ended) ==
    (ended.sec - started.sec) * 1000 + (ended.micro - started.micro) \div 1000

\* the recovery spans one run contributes: none or one
RecoverySpans(group) ==
    IF Len(group) > 1 \/ \E i \in 1..Len(group) : StripLower(group[i].recovery_action) # ""
    THEN LET started == _parse_iso8601_utc(group[1].timestamp)
             ended == _parse_iso8601_utc(group[Len(group)].timestamp)
         IN  IF started # NoTime /\ ended # NoTime /\ TimeLeq(started, ended)
             THEN << SpanMs(started, ended) >>
             ELSE IF SumDurations(group) > 0 THEN << SumDurations(group) >>
             ELSE << >>
    ELSE << >>

RECURSIVE Flatten(_)

Flatten(seqs) == IF seqs = << >> THEN << >> ELSE Head(seqs) \o Flatten(Tail(seqs))

RECURSIVE SumOf(_)

SumOf(values) == IF values = << >> THEN 0 ELSE Head(values) + SumOf(Tail(values))

build_slo_summary(dir, clock, agent_id, window, since, until) ==
    LET range == _normalize_window(clock, window, since, until)
        events == load_heartbeat_events(dir, agent_id, range.since, range.until)
        keys == RunKeys(events)
        groups == [i \in 1..Len(keys) |-> RunGroup(events, keys[i])]
        finals == [i \in 1..Len(keys) |-> groups[i][Len(groups[i])]]
        recovery_spans == Flatten([i \in 1..Len(keys) |-> RecoverySpans(groups[i])])
        success_runs == Cardinality({ i \in 1..Len(keys) : _run_result(finals[i]) = "success" })
        timeout_runs == Cardinality({ i \in 1..Len(keys) : _failure_bucket(finals[i]) = "timeout" })
    IN  IF range.error # ""
        THEN [error |-> range.error, read |-> FALSE]
        ELSE [error |-> "", read |-> TRUE, window |-> range.window,
              since |-> range.since, until |-> range.until,
              events |-> Len(events), runs |-> Len(keys),
              success_runs |-> success_runs, timeout_runs |-> timeout_runs,
              success_rate |-> IF Len(keys) = 0 THEN [num |-> 1, den |-> 1]
                               ELSE [num |-> success_runs, den |-> Len(keys)],
              timeout_rate |-> IF Len(keys) = 0 THEN [num |-> 0, den |-> 1]
                               ELSE [num |-> timeout_runs, den |-> Len(keys)],
              recovery_spans |-> recovery_spans,
              recovery_samples |-> Len(recovery_spans),
              recovery_avg_ms |-> IF recovery_spans = << >> THEN 0
                                  ELSE SumOf(recovery_spans) \div Len(recovery_spans),
              recovery_p95_ms |-> _percentile(recovery_spans, 95)]

cmd_heartbeat_slo(dir, clock, args) ==
    LET range == _resolve_trace_time_range(args.since, args.until)
        window == IF args.window = None \/ args.window = "" THEN "daily" ELSE args.window
        summary == build_slo_summary(dir, clock, _resolve_trace_agent_id(args.agent),
                                     window, range.since, range.until)
    IN  IF range.error # ""
        THEN [rc |-> 1, error |-> range.error, read |-> FALSE, summary |-> [error |-> range.error, read |-> FALSE]]
        ELSE IF summary.error # ""
        THEN [rc |-> 1, error |-> summary.error, read |-> FALSE, summary |-> summary]
        ELSE [rc |-> 0, error |-> "", read |-> TRUE, summary |-> summary]

\* a time after every clock reading and a time more than a week before it
FutureText == [sec |-> 1000000, frac |-> NoFraction]

LongAgoText == [sec |-> -1000000, frac |-> NoFraction]

SloRequests(dir) ==
    { [agent |-> a, window |-> "daily", since |-> s, until |-> u] :
        a \in {NoAgent, <<"E", "_", "1">>},
        s \in {NoText, FutureText} \cup LoggedTexts(dir),
        u \in {NoText, LongAgoText} \cup LoggedTexts(dir) }
    \cup { [agent |-> NoAgent, window |-> w, since |-> NoText, until |-> NoText] :
            w \in {None, "weekly", " Weekly ", "monthly"} }

CmdHeartbeatSlo ==
    /\ call = NoCall
    /\ \E args \in SloRequests(audit_dir) :
        call' = [fn |-> "cmd_heartbeat_slo", args |-> args,
                 ret |-> cmd_heartbeat_slo(audit_dir, now, args)]
    /\ UNCHANGED << hbvars, auditvars, lifevars >>

\* the command process ends and its output is gone
CommandExit ==
    /\ call # NoCall
    /\ call' = NoCall
    /\ UNCHANGED << hbvars, auditvars, lifevars >>

\* a log directory that holds lines no append wrote
CorruptDir ==
    (<<"e", "-", "1">> :> << NotJsonLine, BlankLine, JsonListLine >>)

InitAudit ==
    /\ env = [tmux |-> TRUE, found |-> TRUE, enabled |-> TRUE,
              heartbeat |-> TRUE, hb_enabled |-> TRUE]
    /\ recovery_policy = [max_retries |-> 1, retry_backoff_seconds |-> 3,
                          fallback_mode |-> "fresh", notify_on_failure |-> FALSE]
    /\ session_mode = "restore"
    /\ timeout_seconds = 0
    /\ session = FALSE
    /\ HbInitial
    /\ call = NoCall
    /\ audit_dir \in {NoAuditDir, CorruptDir}
    /\ now = Epoch
    /\ LifeAtRest

NextAudit ==
    \/ AuditAppend
    \/ CmdHeartbeatTrace
    \/ CmdHeartbeatSlo
    \/ CommandExit

SpecAudit == InitAudit /\ [][NextAudit]_vars

(***************************************************************************)
(* tmux_helper.py: sessions, windows and pane layouts                      *)
(*                                                                         *)
(* The server is the set of its panes; a pane is                           *)
(*   [session, window, id, title, command].                                *)
(* A pane id is the path at which the pane was split off, the root pane    *)
(* of a container being << >>.  A title is [base, qualified, path]: the    *)
(* text base when not qualified, base ":" path joined by "." otherwise.    *)
(***************************************************************************)
MAIN_AGENT_ID == "main"

DEFAULT_GROUP_SESSION_NAME == "agent-manager"

AgentNames == {"emp-0001", "MAIN"}

\* str(agent_id).strip().lower() == MAIN_AGENT_ID
_is_main_agent_id(agent_id) == agent_id \in {"main", "MAIN", " Main "}

\* f"{SESSION_PREFIX}{agent_id}", "main" for the main agent
_session_name_for_agent(agent_id) ==
    IF _is_main_agent_id(agent_id) THEN MAIN_AGENT_ID
    ELSE IF agent_id = "emp-0001" THEN "agent-emp-0001" ELSE "agent-other"

_window_name_for_agent(agent_id) == _session_name_for_agent(agent_id)

_tmux_has_session(tm, session_name) == \E p \in tm : p.session = session_name

_group_window_exists(tm, agent_id) ==
    \E p \in tm : /\ p.session = DEFAULT_GROUP_SESSION_NAME
                  /\ p.window = _window_name_for_agent(agent_id)

session_exists(tm, agent_id) ==
    \/ _tmux_has_session(tm, _session_name_for_agent(agent_id))
    \/ _group_window_exists(tm, agent_id)

\* the panes of the agent's container, dedicated session first
ContainerPanes(tm, agent_id) ==
    IF _tmux_has_session(tm, _session_name_for_agent(agent_id))
    THEN {p \in tm : p.session = _session_name_for_agent(agent_id)}
    ELSE {p \in tm : /\ p.session = DEFAULT_GROUP_SESSION_NAME
                     /\ p.window = _window_name_for_agent(agent_id)}

DefaultTitle == [base |-> "", qualified |-> FALSE, path |-> << >>]

AgentTitle(agent_id) ==
    [base |-> _window_name_for_agent(agent_id), qualified |-> FALSE, path |-> << >>]

\* tmux new-session / new-window, then _set_agent_pane_title
NewContainer(agent_id, command, layout) ==
    [session |-> IF layout = "windows" THEN DEFAULT_GROUP_SESSION_NAME
                 ELSE _session_name_for_agent(agent_id),
     window |-> IF layout = "windows" THEN _window_name_for_agent(agent_id) ELSE "0",
     id |-> << >>, title |-> AgentTitle(agent_id), command |-> command]

\* mutant: the existence check is left out
start_session_unchecked(tm, agent_id, command, layout, tmux_ok) ==
    IF tmux_ok
    THEN [tmux |-> tm \cup {NewContainer(agent_id, command, layout)}, ret |-> TRUE]
    ELSE [tmux |-> tm, ret |-> FALSE]

\* tmux_ok: the return code of tmux new-session / new-window was 0
start_session(tm, agent_id, command, layout, tmux_ok) ==
    IF session_exists(tm, agent_id) THEN [tmux |-> tm, ret |-> FALSE]
    ELSE IF tmux_ok
    THEN [tmux |-> tm \cup {NewContainer(agent_id, command, layout)}, ret |-> TRUE]
    ELSE [tmux |-> tm, ret |-> FALSE]

\* mutant: only the pane the container started with is killed
stop_session_first_pane(tm, agent_id) ==
    IF session_exists(tm, agent_id)
    THEN [tmux |-> tm \ {p \in ContainerPanes(tm, agent_id) : p.id = << >>},
          ret |-> TRUE]
    ELSE [tmux |-> tm, ret |-> FALSE]

\* tmux kill-session / kill-window on the container that exists
stop_session(tm, agent_id) ==
    IF session_exists(tm, agent_id)
    THEN [tmux |-> tm \ ContainerPanes(tm, agent_id), ret |-> TRUE]
    ELSE [tmux |-> tm, ret |-> FALSE]

\* layout specs as written in the agent file: a leaf ({} or null), a
\* mapping with split and panes, or something that is not a mapping
Leaf == [kind |-> "leaf"]

Split(split, a, b) == [kind |-> "node", split |-> split, panes |-> << a, b >>]

NotAMapping == [kind |-> "scalar"]

_LAYOUT_SPLIT_ALIASES ==
    [s \in {"h", "horizontal", "v", "vertical"} |->
        IF s \in {"h", "horizontal"} THEN "h" ELSE "v"]

RECURSIVE LayoutIsValid(_)
LayoutIsValid(node) ==
    \/ node.kind = "leaf"
    \/ /\ node.kind = "node"
       /\ node.split \in DOMAIN _LAYOUT_SPLIT_ALIASES
       /\ Len(node.panes) = 2
       /\ LayoutIsValid(node.panes[1])
       /\ LayoutIsValid(node.panes[2])

RECURSIVE NormalizedLayout(_)
NormalizedLayout(node) ==
    IF node.kind = "leaf" THEN Leaf
    ELSE Split(_LAYOUT_SPLIT_ALIASES[node.split],
               NormalizedLayout(node.panes[1]), NormalizedLayout(node.panes[2]))

ValueError == [kind |-> "ValueError"]

_normalize_layout_node(node) ==
    IF LayoutIsValid(node) THEN NormalizedLayout(node) ELSE ValueError

\* target_pane as a list; BadPath stands for the ValueError
BadPath == << -1 >>

_parse_target_path(value) ==
    IF ~value.given THEN BadPath
    ELSE IF \E i \in 1..Len(value.parts) : value.parts[i] \notin {0, 1} THEN BadPath
    ELSE value.parts

\* the pane that sits at a position of the tree: the one split off at the
\* last 1 of the path
RECURSIVE PaneIdAt(_)
PaneIdAt(path) ==
    IF path = << >> THEN << >>
    ELSE IF path[Len(path)] = 0 THEN PaneIdAt(SubSeq(path, 1, Len(path) - 1))
    ELSE path

\* the split-window calls of _build_layout, in call order
RECURSIVE LayoutSplits(_, _)
LayoutSplits(layout, path) ==
    IF layout.kind = "leaf" THEN << >>
    ELSE << [of |-> PaneIdAt(path), new |-> path \o << 1 >>, split |-> layout.split] >>
         \o LayoutSplits(layout.panes[1], path \o << 0 >>)
         \o LayoutSplits(layout.panes[2], path \o << 1 >>)

\* the keys of pane_map, in insertion order
RECURSIVE LeafPaths(_, _)
LeafPaths(layout, path) ==
    IF layout.kind = "leaf" THEN << path >>
    ELSE LeafPaths(layout.panes[1], path \o << 0 >>)
         \o LeafPaths(layout.panes[2], path \o << 1 >>)

_build_layout(layout) ==
    [splits |-> LayoutSplits(layout, << >>), leaves |-> LeafPaths(layout, << >>)]

PathTitle(agent_id, path) ==
    [base |-> _window_name_for_agent(agent_id), qualified |-> TRUE, path |-> path]

\* mutant: the launch pane keeps the title of its position
LayoutTitle_all_qualified(agent_id, path, target) == PathTitle(agent_id, path)

\* the title loop of start_session_with_layout
LayoutTitle(agent_id, path, target) ==
    IF path = target THEN AgentTitle(agent_id) ELSE PathTitle(agent_id, path)

\* the failure the tmux server answers with, if any: the n-th call of kind op
NoFault == [op |-> "none", n |-> 0]

TmuxCall(op, pane, title, command) ==
    [op |-> op, pane |-> pane, title |-> title, command |-> command]

Elements(s) == {s[i] : i \in 1..Len(s)}

\* the panes of the container once the first n splits are done
BuiltPanes(root, splits, n) ==
    {root} \cup {[root EXCEPT !.id = splits[i].new, !.title = DefaultTitle,
                              !.command = "default-shell"] : i \in 1..n}

\* the whole of start_session_with_layout, its tmux calls logged in order
start_session_with_layout(tm, agent_id, command, layout_spec, target_path, session_layout, fault) ==
    LET layout == _normalize_layout_node(layout_spec)
        target == _parse_target_path(target_path)
        started == start_session(tm, agent_id, "bash", session_layout, fault.op # "new")
        root == NewContainer(agent_id, "bash", session_layout)
        built == _build_layout(layout)
        nsplit == IF fault.op = "split" /\ fault.n <= Len(built.splits)
                  THEN fault.n - 1 ELSE Len(built.splits)
        new_log == << TmuxCall("new", << >>, DefaultTitle, "bash"),
                      TmuxCall("title", << >>, AgentTitle(agent_id), "") >>
        split_log == [i \in 1..nsplit |->
                        TmuxCall("split", built.splits[i].new, DefaultTitle, "")]
        title_log == [i \in 1..Len(built.leaves) |->
                        TmuxCall("title", PaneIdAt(built.leaves[i]),
                                 LayoutTitle(agent_id, built.leaves[i], target), "")]
        kill_log == << TmuxCall("kill", << >>, DefaultTitle, "") >>
        PaneOf(i, launched) ==
            [session |-> root.session, window |-> root.window,
             id |-> PaneIdAt(built.leaves[i]),
             title |-> LayoutTitle(agent_id, built.leaves[i], target),
             command |-> IF launched /\ built.leaves[i] = target THEN command
                         ELSE IF PaneIdAt(built.leaves[i]) = << >> THEN "bash"
                         ELSE "default-shell"]
        titled == {PaneOf(i, FALSE) : i \in 1..Len(built.leaves)}
        launched == {PaneOf(i, TRUE) : i \in 1..Len(built.leaves)}
        partial == started.tmux \cup BuiltPanes(root, built.splits, nsplit)
        Raise(log) == [tmux |-> tm, raised |-> TRUE, ret |-> BadPath, log |-> log]
        \* except Exception: stop_session(agent_id); raise
        TearDown(state, log) ==
            [tmux |-> stop_session(state, agent_id).tmux, raised |-> TRUE,
             ret |-> BadPath, log |-> log \o kill_log]
    IN  IF layout = ValueError \/ layout = Leaf \/ target = BadPath THEN Raise(<< >>)
        ELSE IF ~started.ret
        THEN Raise(IF session_exists(tm, agent_id) THEN << >>
                   ELSE << TmuxCall("new", << >>, DefaultTitle, "bash") >>)
        ELSE IF fault.op = "resolve" THEN TearDown(started.tmux, new_log)
        ELSE IF nsplit < Len(built.splits) THEN TearDown(partial, new_log \o split_log)
        ELSE IF target \notin Elements(built.leaves)
        THEN TearDown(partial, new_log \o split_log)
        ELSE IF fault.op = "respawn"
        THEN TearDown(tm \cup titled,
                      new_log \o split_log \o title_log
                      \o << TmuxCall("respawn", PaneIdAt(target), DefaultTitle, command) >>)
        ELSE [tmux |-> tm \cup launched, raised |-> FALSE, ret |-> PaneIdAt(target),
              log |-> new_log \o split_log \o title_log
                      \o << TmuxCall("respawn", PaneIdAt(target), DefaultTitle, command),
                            TmuxCall("select", PaneIdAt(target), DefaultTitle, "") >>]

(***************************************************************************)
(* main.py: provider session records and session files                     *)
(*                                                                         *)
(* A session file is [path, mtime, session_id]: session_id is what the     *)
(* first lines of the file yield, "" when they cannot be parsed.  The file *)
(* of session s is named after s.  The persisted record is                 *)
(* [kind, session_id] with kind "absent", "corrupt" or "ok".               *)
(***************************************************************************)
TrackedProviders == {"droid", "agent", "agent-cli", "codex", "opencode"}

NoRecord == [kind |-> "absent", session_id |-> ""]

CorruptRecord == [kind |-> "corrupt", session_id |-> ""]

SavedRecord(session_id) == [kind |-> "ok", session_id |-> session_id]

\* json.loads / payload.get raise on a missing or corrupt file: except -> ""
_load_provider_session_id(record) ==
    IF record.kind = "ok" THEN record.session_id ELSE ""

_save_provider_session_id(session_id) == SavedRecord(session_id)

_provider_session_exists(provider_key, files, session_id) ==
    /\ provider_key \in TrackedProviders
    /\ session_id # ""
    /\ \E f \in files : f.path = session_id

_snapshot_provider_sessions(provider_key, files) ==
    IF provider_key \in TrackedProviders THEN {f.path : f \in files} ELSE {}

\* gone: the listed files removed since, [stat, open]: before p.stat() is
\* called on them, or after it and before they are opened
NoneGone == [stat |-> {}, open |-> {}]

\* open() of a file that is gone raises inside the try: ""
_extract_session_id_from_jsonl(f, gone) ==
    IF f.path \in gone.open THEN "" ELSE f.session_id

Found(session_id) == [raised |-> FALSE, ret |-> session_id]

\* p.stat() of a listed file that is gone: FileNotFoundError, not caught
StatRaised == [raised |-> TRUE, ret |-> ""]

Newest(fs) == CHOOSE f \in fs : \A g \in fs : g.mtime <= f.mtime

\* sorted(candidates, key=mtime, reverse=True), then the first parsable id
RECURSIVE FirstParsable(_, _)
FirstParsable(fs, gone) ==
    IF fs = {} THEN ""
    ELSE IF _extract_session_id_from_jsonl(Newest(fs), gone) # ""
    THEN _extract_session_id_from_jsonl(Newest(fs), gone)
    ELSE FirstParsable(fs \ {Newest(fs)}, gone)

_find_new_droid_session_id(files, before, gone) ==
    LET candidates == {f \in files : f.path \notin before}
    IN  IF candidates = {} THEN Found("")
        ELSE IF \E f \in candidates : f.path \in gone.stat THEN StatRaised
        ELSE Found(_extract_session_id_from_jsonl(Newest(candidates), gone))

\* mutant: without the fallback to every session file
_find_new_claude_session_id_strict(files, before, gone) ==
    LET candidates == {f \in files : f.path \notin before}
    IN  IF candidates = {} THEN Found("")
        ELSE IF \E f \in candidates : f.path \in gone.stat THEN StatRaised
        ELSE Found(FirstParsable(candidates, gone))

\* _find_new_codex_session_id and _find_new_opencode_session_id read the same
_find_new_claude_session_id(files, before, gone) ==
    LET fresh == {f \in files : f.path \notin before}
        candidates == IF fresh = {} THEN files ELSE fresh
    IN  IF candidates = {} THEN Found("")
        ELSE IF \E f \in candidates : f.path \in gone.stat THEN StatRaised
        ELSE Found(FirstParsable(candidates, gone))

_find_new_provider_session_id(provider_key, files, before, gone) ==
    IF provider_key = "droid" THEN _find_new_droid_session_id(files, before, gone)
    ELSE IF provider_key \in TrackedProviders
    THEN _find_new_claude_session_id(files, before, gone)
    ELSE Found("")

\* polls: what each poll of the retry loop finds, [files, gone], the last
\* poll being the one at or past the deadline
RECURSIVE _find_new_provider_session_id_with_retry(_, _, _)
_find_new_provider_session_id_with_retry(provider_key, polls, before) ==
    LET r == _find_new_provider_session_id(provider_key, Head(polls).files, before,
                                           Head(polls).gone)
    IN  IF r.raised \/ r.ret # "" \/ Len(polls) = 1 THEN r
        ELSE _find_new_provider_session_id_with_retry(provider_key, Tail(polls), before)

(***************************************************************************)
(* commands/lifecycle.py: cmd_start                                        *)
(*                                                                         *)
(* args  [agent_id, restore, tmux_layout]: restore is "yes", "no", or      *)
(*       "unset" when the Namespace has no such attribute;                 *)
(* cfg   the agent file: [preflight, working_dir, provider_key, exec,      *)
(*       system_prompt, mcp, layout_spec, target_path];                    *)
(* out   what the world does during the call: [fault, prompt_ok, exited,   *)
(*       inject_ok, polls].                                                *)
(***************************************************************************)
\* mutant: restore is taken as requested whatever the arguments say
RestoreRequested_always(args) == TRUE

\* getattr(args, "restore", True)
RestoreRequested(args) == args.restore # "no"

\* providers.get_session_restore_mode / get_session_restore_flag: every
\* tracked provider takes a resume argument
get_session_restore_mode(provider_key) ==
    IF provider_key \in TrackedProviders THEN "cli_optional_arg" ELSE ""

NoLayout == [kind |-> "none"]

StartEvent(ev, resume, prompt, mcp, session_id) ==
    [ev |-> ev, resume |-> resume, prompt |-> prompt, mcp |-> mcp,
     session_id |-> session_id]

Step(ev) == StartEvent(ev, FALSE, FALSE, FALSE, "")

\* build_start_command and the system prompt / MCP flags appended to it
LaunchCommand(resume, session_id, prompt, mcp) ==
    "launch" \o (IF resume THEN " resume " \o session_id ELSE "")
             \o (IF prompt THEN " --system-prompt" ELSE "")
             \o (IF mcp THEN " --mcp-config" ELSE "")

StartResult(code, tm, prov, raised, log) ==
    [rc |-> code, tmux |-> tm, provider |-> prov, raised |-> raised, log |-> log]

cmd_start(tm, prov, args, cfg, out) ==
    LET agent_id == args.agent_id
        \* droid run with "exec" in its launcher arguments is not tracked
        track_provider_session ==
            /\ cfg.provider_key \in TrackedProviders
            /\ ~(cfg.provider_key = "droid" /\ cfg.exec)
        provider_before_sessions ==
            _snapshot_provider_sessions(cfg.provider_key, prov.files)
        stored_session_id == _load_provider_session_id(prov.record)
        did_provider_restore ==
            /\ RestoreRequested(args) /\ track_provider_session
            /\ get_session_restore_mode(cfg.provider_key) = "cli_optional_arg"
            /\ stored_session_id # ""
            /\ _provider_session_exists(cfg.provider_key, prov.files, stored_session_id)
        system_prompt == cfg.system_prompt # "none"
        use_cli_system_prompt ==
            system_prompt /\ ~did_provider_restore /\ cfg.system_prompt = "cli"
        mcp_injected == cfg.mcp = "cli_json" /\ ~did_provider_restore
        command == LaunchCommand(did_provider_restore, stored_session_id,
                                 use_cli_system_prompt, mcp_injected)
        before_log ==
            (IF track_provider_session THEN << Step("snapshot") >> ELSE << >>)
            \o (IF RestoreRequested(args) /\ track_provider_session
                THEN << Step("load") >> ELSE << >>)
        \* a layout that raises is reported and the command returns 1
        Caught(r) == [tmux |-> r.tmux, ret |-> ~r.raised]
        launch_log ==
            before_log \o << StartEvent("launch", did_provider_restore,
                 use_cli_system_prompt, mcp_injected,
                 IF did_provider_restore THEN stored_session_id ELSE "") >>
        paste == system_prompt /\ ~did_provider_restore /\ ~use_cli_system_prompt
        inject_log == IF paste THEN << Step("inject") >> ELSE << >>
        \* each poll lists the files there were plus those the launch created
        views == [i \in 1..Len(out.polls) |->
                    [files |-> prov.files \cup out.polls[i].created,
                     gone |-> out.polls[i].gone]]
        files_after ==
            {f \in views[Len(views)].files :
                f.path \notin (views[Len(views)].gone.stat \cup views[Len(views)].gone.open)}
        launched_prov == [prov EXCEPT !.files = files_after]
        \* the bookkeeping of the provider session, once the agent is up
        Bookkeeping(waited, found) ==
            IF track_provider_session /\ ~did_provider_restore /\ found.raised
            THEN StartResult(1, waited, launched_prov, TRUE,
                             launch_log \o inject_log \o << Step("find_new") >>)
            ELSE StartResult(IF out.exited THEN 1 ELSE 0, waited,
                     [record |->
                         IF ~track_provider_session THEN prov.record
                         ELSE IF did_provider_restore
                         THEN _save_provider_session_id(stored_session_id)
                         ELSE IF found.ret # "" THEN _save_provider_session_id(found.ret)
                         ELSE prov.record,
                      files |-> files_after], FALSE,
                     launch_log \o inject_log
                     \o (IF ~track_provider_session THEN << >>
                         ELSE IF did_provider_restore
                         THEN << StartEvent("save", FALSE, FALSE, FALSE, stored_session_id) >>
                         ELSE << Step("find_new") >>
                              \o (IF found.ret # ""
                                  THEN << StartEvent("save", FALSE, FALSE, FALSE, found.ret) >>
                                  ELSE << >>)))
        \* waited: the server after the wait for the prompt, during which the
        \* agent process may exit
        Launched(waited) ==
            IF ~out.prompt_ok /\ (out.exited \/ ~use_cli_system_prompt)
            THEN StartResult(1, waited, launched_prov, FALSE, launch_log)
            ELSE IF paste /\ cfg.provider_key = "codex"
            THEN StartResult(1, waited, launched_prov, FALSE, launch_log)
            ELSE IF paste /\ ~out.inject_ok
            THEN StartResult(1, waited, launched_prov, FALSE, launch_log \o inject_log)
            ELSE Bookkeeping(waited,
                    _find_new_provider_session_id_with_retry(cfg.provider_key, views,
                                                             provider_before_sessions))
        Started(started) ==
            IF ~started.ret THEN StartResult(1, started.tmux, prov, FALSE, before_log)
            ELSE Launched(IF out.exited THEN stop_session(started.tmux, agent_id).tmux
                          ELSE started.tmux)
    IN  IF cfg.preflight # "ok" THEN StartResult(1, tm, prov, FALSE, << >>)
        ELSE IF session_exists(tm, agent_id)
        THEN IF RestoreRequested(args)
             THEN StartResult(0, tm, prov, FALSE, << Step("reuse") >>)
             ELSE StartResult(1, tm, prov, FALSE, << >>)
        ELSE IF ~cfg.working_dir THEN StartResult(1, tm, prov, FALSE, << >>)
        ELSE IF cfg.mcp = "invalid" THEN StartResult(1, tm, prov, FALSE, before_log)
        ELSE IF cfg.layout_spec = NoLayout /\ cfg.target_path.given
        THEN StartResult(1, tm, prov, FALSE, before_log)
        ELSE IF cfg.layout_spec # NoLayout
        THEN Started(Caught(start_session_with_layout(tm, agent_id, command,
                         cfg.layout_spec, cfg.target_path, args.tmux_layout, out.fault)))
        ELSE Started(start_session(tm, agent_id, command, args.tmux_layout,
                                   out.fault.op # "new"))

(***************************************************************************)
(* commands/schedule_run.py: cmd_schedule_run up to the sending of the     *)
(* task; the log ends with send and wait when the task was sent and the    *)
(* completion wait entered, with send_failed when send_keys failed         *)
(*                                                                         *)
(* sched    [preflight, clear_context, timeout]: preflight is "ok", "fail" *)
(*          (an early return 1) or "disabled" (an early return 0);         *)
(* runtime  what get_agent_runtime_state answers: [state, elapsed, reason] *)
(***************************************************************************)
RunResult(code, tm, prov, raised, log) ==
    [rc |-> code, tmux |-> tm, provider |-> prov, raised |-> raised, log |-> log]

\* mutant: the return code of start_handler is not looked at
_restart_agent_ignoring_start(tm, prov, agent_id, cfg, out) ==
    LET Restarted(r) ==
            [ok |-> ~r.raised, tmux |-> r.tmux, provider |-> r.provider,
             raised |-> r.raised,
             log |-> << Step("stop"), Step("start") >> \o r.log
                     \o << Step(IF r.rc = 0 /\ ~r.raised THEN "restart_ok"
                                ELSE "restart_failed") >>]
    IN  Restarted(cmd_start(stop_session(tm, agent_id).tmux, prov,
                            [agent_id |-> agent_id, restore |-> "unset",
                             tmux_layout |-> "sessions"], cfg, out))

\* stop_session, then start_handler(Namespace(agent, working_dir=None)); the
\* log ends with what start_handler returned
_restart_agent(tm, prov, agent_id, cfg, out) ==
    LET Restarted(r) ==
            [ok |-> r.rc = 0 /\ ~r.raised, tmux |-> r.tmux, provider |-> r.provider,
             raised |-> r.raised,
             log |-> << Step("stop"), Step("start") >> \o r.log
                     \o << Step(IF r.rc = 0 /\ ~r.raised THEN "restart_ok"
                                ELSE "restart_failed") >>]
    IN  Restarted(cmd_start(stop_session(tm, agent_id).tmux, prov,
                            [agent_id |-> agent_id, restore |-> "unset",
                             tmux_layout |-> "sessions"], cfg, out))

cmd_schedule_run(tm, prov, agent_id, sched, runtime, state_after, cfg, out, send_ok) ==
    LET was_started == ~session_exists(tm, agent_id)
        decision == _decide_runtime_action(runtime.state, runtime.elapsed,
                                           sched.timeout, runtime.reason)
        clear_now == /\ sched.clear_context /\ ~was_started
                     /\ decision.action # "restart" /\ state_after = "idle"
        Send(tm2, prov2, log2) ==
            IF send_ok
            THEN RunResult(0, tm2, prov2, FALSE, log2 \o << Step("send"), Step("wait") >>)
            ELSE RunResult(1, tm2, prov2, FALSE, log2 \o << Step("send_failed") >>)
        \* the session is there already, or start_handler(restore=False) ran
        Present == [rc |-> 0, tmux |-> tm, provider |-> prov, raised |-> FALSE,
                    log |-> << >>]
        FirstStart(first) ==
            [first EXCEPT !.log = << Step("start") >> \o first.log]
        \* _restart_agent on a stuck or blocked agent, and for clear_context
        AfterRestart(restarted, log1) ==
            IF restarted.ok
            THEN Send(restarted.tmux, restarted.provider, log1 \o restarted.log)
            ELSE RunResult(1, restarted.tmux, restarted.provider, restarted.raised,
                           log1 \o restarted.log)
        AfterStart(first) ==
            IF first.rc # 0 \/ first.raised
            THEN RunResult(1, first.tmux, first.provider, first.raised, first.log)
            ELSE IF decision.action = "skip"
            THEN RunResult(0, first.tmux, first.provider, FALSE, first.log)
            ELSE IF decision.action = "restart" \/ clear_now
            THEN AfterRestart(_restart_agent(first.tmux, first.provider, agent_id, cfg, out),
                              first.log)
            ELSE Send(first.tmux, first.provider, first.log)
    IN  IF sched.preflight = "fail" THEN RunResult(1, tm, prov, FALSE, << >>)
        ELSE IF sched.preflight = "disabled" THEN RunResult(0, tm, prov, FALSE, << >>)
        ELSE AfterStart(IF was_started
                        THEN FirstStart(cmd_start(tm, prov,
                                 [agent_id |-> agent_id, restore |-> "no",
                                  tmux_layout |-> "sessions"], cfg, out))
                        ELSE Present)

(***************************************************************************)
(* SpecTmux: the session operations against one tmux server                *)
(***************************************************************************)
LayoutSpecs ==
    { Split("h", Leaf, Leaf),
      Split("vertical", Split("h", Leaf, Leaf), Leaf),
      Split("v", Leaf, Split("horizontal", Leaf, Leaf)),
      Leaf, NotAMapping, Split("diagonal", Leaf, Leaf),
      Split("h", NotAMapping, Leaf),
      [kind |-> "node", split |-> "h", panes |-> << Leaf >>] }

TargetPaths ==
    { [given |-> FALSE, parts |-> << >>] }
    \cup { [given |-> TRUE, parts |-> p] :
             p \in { << >>, << 0 >>, << 1 >>, << 0, 1 >>, << 1, 0 >>, << 2 >> } }

TmuxFaults ==
    { NoFault, [op |-> "new", n |-> 1], [op |-> "resolve", n |-> 1],
      [op |-> "split", n |-> 1], [op |-> "split", n |-> 2],
      [op |-> "respawn", n |-> 1] }

SessionLayouts == {"sessions", "windows"}

StartSessionOf(agents) ==
    /\ call = NoCall
    /\ \E agent_id \in agents, layout \in SessionLayouts, tmux_ok \in BOOLEAN :
        LET r == start_session(tmux, agent_id, "launch", layout, tmux_ok)
        IN  /\ tmux' = r.tmux
            /\ call' = [fn |-> "start_session", agent_id |-> agent_id,
                        layout |-> layout, before |-> tmux, ret |-> r.ret]
            /\ UNCHANGED << hbvars, auditvars, provider >>

StartSession == StartSessionOf(AgentNames)

StartSessionWithLayout ==
    /\ call = NoCall
    /\ \E layout_spec \in LayoutSpecs, target_path \in TargetPaths,
       session_layout \in SessionLayouts, fault \in TmuxFaults :
        LET r == start_session_with_layout(tmux, "emp-0001", "launch", layout_spec,
                                           target_path, session_layout, fault)
        IN  /\ tmux' = r.tmux
            /\ call' = [fn |-> "start_session_with_layout", agent_id |-> "emp-0001",
                        layout_spec |-> layout_spec, target_path |-> target_path,
                        fault |-> fault, before |-> tmux, raised |-> r.raised,
                        ret |-> r.ret, log |-> r.log]
            /\ UNCHANGED << hbvars, auditvars, provider >>

StopSessionOf(agents) ==
    /\ call = NoCall
    /\ \E agent_id \in agents :
        LET r == stop_session(tmux, agent_id)
        IN  /\ tmux' = r.tmux
            /\ call' = [fn |-> "stop_session", agent_id |-> agent_id,
                        before |-> tmux, ret |-> r.ret]
            /\ UNCHANGED << hbvars, auditvars, provider >>

StopSession == StopSessionOf(AgentNames)

NextTmux ==
    \/ StartSession
    \/ StartSessionWithLayout
    \/ StopSession
    \/ CommandExit

SpecTmux == InitPure /\ [][NextTmux]_vars

(***************************************************************************)
(* SpecStart: start, stop and scheduled runs of one agent                  *)
(***************************************************************************)
SessionFile(path, mtime, session_id) ==
    [path |-> path, mtime |-> mtime, session_id |-> session_id]

OldFile == SessionFile("s1", 1, "s1")

NewFile == SessionFile("s2", 2, "s2")

UnparsableFile == SessionFile("s3", 3, "")

NoTarget == [given |-> FALSE, parts |-> << >>]

BaseConfig ==
    [preflight |-> "ok", working_dir |-> TRUE, provider_key |-> "agent",
     exec |-> FALSE, system_prompt |-> "cli", mcp |-> "cli_json", layout_spec |-> NoLayout,
     target_path |-> NoTarget]

StartConfigs ==
    {[BaseConfig EXCEPT !.preflight = v] : v \in {"ok", "no_tmux", "not_found", "disabled"}}
    \cup {[BaseConfig EXCEPT !.working_dir = FALSE]}
    \cup {[BaseConfig EXCEPT !.system_prompt = p] : p \in {"none", "paste"}}
    \cup {[BaseConfig EXCEPT !.provider_key = k] : k \in {"droid", "codex", "shell"}}
    \cup {[BaseConfig EXCEPT !.provider_key = "codex", !.system_prompt = "paste"]}
    \cup {[BaseConfig EXCEPT !.provider_key = "droid", !.exec = TRUE]}
    \cup {[BaseConfig EXCEPT !.mcp = v] : v \in {"none", "unsupported", "invalid"}}
    \cup {[BaseConfig EXCEPT !.layout_spec = Split("h", Leaf, Leaf),
                             !.target_path = [given |-> TRUE, parts |-> p]] :
             p \in {<< 0 >>, << 0, 1 >>}}
    \cup {[BaseConfig EXCEPT !.target_path = [given |-> TRUE, parts |-> << 0 >>]]}

BaseOutcome ==
    [fault |-> NoFault, prompt_ok |-> TRUE, exited |-> FALSE, inject_ok |-> TRUE,
     polls |-> << [created |-> {NewFile}, gone |-> NoneGone] >>]

LaunchOutcomes ==
    {[BaseOutcome EXCEPT !.fault = f] :
        f \in {NoFault, [op |-> "new", n |-> 1], [op |-> "respawn", n |-> 1]}}
    \cup {[BaseOutcome EXCEPT !.prompt_ok = FALSE, !.exited = x] : x \in BOOLEAN}
    \cup {[BaseOutcome EXCEPT !.exited = TRUE], [BaseOutcome EXCEPT !.inject_ok = FALSE]}
    \cup {[BaseOutcome EXCEPT !.polls = p] :
             p \in { << [created |-> {}, gone |-> NoneGone] >>,
                     << [created |-> {}, gone |-> NoneGone],
                        [created |-> {NewFile}, gone |-> NoneGone] >>,
                     << [created |-> {NewFile}, gone |-> [stat |-> {"s2"}, open |-> {}]] >>,
                     << [created |-> {}, gone |-> [stat |-> {"s1"}, open |-> {}]] >> }}

StartArgs ==
    {[agent_id |-> "emp-0001", restore |-> r, tmux_layout |-> l] :
        r \in {"unset", "yes", "no"}, l \in SessionLayouts}

Schedules ==
    {[preflight |-> "ok", clear_context |-> c, timeout |-> t] :
        c \in BOOLEAN, t \in {NoTimeout, 1200}}
    \cup {[preflight |-> p, clear_context |-> FALSE, timeout |-> NoTimeout] :
             p \in {"fail", "disabled"}}

RuntimeAnswers ==
    {[state |-> s, elapsed |-> 1200, reason |-> "r"] :
        s \in {"idle", "busy", "stuck", "blocked"}}

RunConfigs ==
    {[BaseConfig EXCEPT !.provider_key = k] : k \in {"agent", "shell"}}

RunOutcomes ==
    {BaseOutcome, [BaseOutcome EXCEPT !.fault = [op |-> "new", n |-> 1]],
     [BaseOutcome EXCEPT !.polls = << [created |-> {}, gone |-> NoneGone] >>]}

CmdStart ==
    /\ call = NoCall
    /\ \E args \in StartArgs, cfg \in StartConfigs, out \in LaunchOutcomes :
        LET r == cmd_start(tmux, provider, args, cfg, out)
        IN  /\ tmux' = r.tmux
            /\ provider' = r.provider
            /\ call' = [fn |-> "cmd_start", args |-> args, cfg |-> cfg, out |-> out,
                        before |-> [tmux |-> tmux, provider |-> provider],
                        rc |-> r.rc, raised |-> r.raised, log |-> r.log]
            /\ UNCHANGED << hbvars, auditvars >>

\* the tmux helper called directly on the agent of this specification
StartAgentSession == StartSessionOf({"emp-0001"})

StopAgentSession == StopSessionOf({"emp-0001"})

CmdScheduleRun ==
    /\ call = NoCall
    /\ \E sched \in Schedules, runtime \in RuntimeAnswers, state_after \in {"idle", "busy"},
          cfg \in RunConfigs, out \in RunOutcomes, send_ok \in BOOLEAN :
        LET r == cmd_schedule_run(tmux, provider, "emp-0001", sched, runtime,
                                  state_after, cfg, out, send_ok)
        IN  /\ tmux' = r.tmux
            /\ provider' = r.provider
            /\ call' = [fn |-> "cmd_schedule_run", sched |-> sched, runtime |-> runtime,
                        state_after |-> state_after, cfg |-> cfg, out |-> out,
                        before |-> [tmux |-> tmux, provider |-> provider],
                        rc |-> r.rc, raised |-> r.raised, log |-> r.log]
            /\ UNCHANGED << hbvars, auditvars >>

InitStart ==
    /\ env = [tmux |-> TRUE, found |-> TRUE, enabled |-> TRUE,
              heartbeat |-> TRUE, hb_enabled |-> TRUE]
    /\ recovery_policy = [max_retries |-> 1, retry_backoff_seconds |-> 3,
                          fallback_mode |-> "fresh", notify_on_failure |-> FALSE]
    /\ session_mode = "restore"
    /\ timeout_seconds = 0
    /\ session = FALSE
    /\ HbInitial
    /\ call = NoCall
    /\ audit_dir = NoAuditDir
    /\ now = Epoch
    /\ tmux = NoPanes
    /\ provider \in {NoProvider, [record |-> CorruptRecord, files |-> {OldFile}],
                      [record |-> SavedRecord("s1"), files |-> {OldFile}],
                      [record |-> SavedRecord("s1"), files |-> {}]}

NextStart ==
    \/ CmdStart
    \/ CmdScheduleRun
    \/ StartAgentSession
    \/ StopAgentSession
    \/ CommandExit

SpecStart == InitStart /\ [][NextStart]_vars

(***************************************************************************)
(* tmux_helper.py: send_keys                                               *)
(*                                                                         *)
(* keys is [multiline, len]; failing is the set of tmux calls that return  *)
(* a non-zero code; the result carries the tmux calls made, in order.      *)
(***************************************************************************)
SendChunkSize == 100

\* range(0, len(keys), chunk_size)
ChunkCount(len) == (len + SendChunkSize - 1) \div SendChunkSize

ChunkNames == << "literal-1", "literal-2", "literal-3" >>

\* the chunks sent until one fails
RECURSIVE SentChunks(_, _, _)
SentChunks(k, n, failing) ==
    IF k > n THEN << >>
    ELSE IF ChunkNames[k] \in failing THEN << ChunkNames[k] >>
    ELSE << ChunkNames[k] >> \o SentChunks(k + 1, n, failing)

\* mutant: the newline is pasted whatever the native keys returned
_send_enter_always_paste(enter_via_key, failing) ==
    LET native == IF ~enter_via_key THEN << >>
                  ELSE IF "C-m" \notin failing THEN << "C-m" >>
                  ELSE << "C-m", "Enter" >>
    IN  [ret |-> "paste-newline" \notin failing,
         log |-> native \o << "paste-newline" >>]

\* _send_tmux_key("C-m") or _send_tmux_key("Enter"), then the newline paste
_send_enter(enter_via_key, failing) ==
    LET native == IF ~enter_via_key THEN << >>
                  ELSE IF "C-m" \notin failing THEN << "C-m" >>
                  ELSE << "C-m", "Enter" >>
        native_ok == enter_via_key /\ ("C-m" \notin failing \/ "Enter" \notin failing)
    IN  IF native_ok THEN [ret |-> TRUE, log |-> native]
        ELSE [ret |-> "paste-newline" \notin failing,
              log |-> native \o << "paste-newline" >>]

send_keys(exists, keys, send_enter, clear_input, escape_first, enter_via_key, failing) ==
    LET prefix == (IF escape_first THEN << "Escape" >> ELSE << >>)
                  \o (IF clear_input THEN << "C-u" >> ELSE << >>)
        text == IF keys.multiline THEN << "paste-text" >>
                ELSE SentChunks(1, ChunkCount(keys.len), failing)
        text_ok == \A i \in 1..Len(text) : text[i] \notin failing
        enter == _send_enter(enter_via_key, failing)
    IN  IF ~exists THEN [ret |-> FALSE, log |-> << >>]
        ELSE IF ~text_ok THEN [ret |-> FALSE, log |-> prefix \o text]
        ELSE IF send_enter THEN [ret |-> enter.ret, log |-> prefix \o text \o enter.log]
        ELSE [ret |-> TRUE, log |-> prefix \o text]

(***************************************************************************)
(* SpecSend: send_keys applied to enumerated messages and tmux failures    *)
(***************************************************************************)
KeyTexts ==
    {[multiline |-> FALSE, len |-> n] : n \in {0, 5, 100, 250}}
    \cup {[multiline |-> TRUE, len |-> 40]}

SendFailures == SUBSET {"C-m", "Enter", "paste-newline", "literal-2", "paste-text"}

CallSendKeys ==
    /\ call = NoCall
    /\ \E exists \in BOOLEAN, keys \in KeyTexts, send_enter \in BOOLEAN,
          clear_input \in BOOLEAN, enter_via_key \in BOOLEAN, failing \in SendFailures :
        LET r == send_keys(exists, keys, send_enter, clear_input, clear_input,
                           enter_via_key, failing)
        IN  /\ call' = [fn |-> "send_keys", exists |-> exists, keys |-> keys,
                        send_enter |-> send_enter, clear_input |-> clear_input,
                        enter_via_key |-> enter_via_key, failing |-> failing,
                        ret |-> r.ret, log |-> r.log]
            /\ UNCHANGED << hbvars, auditvars, lifevars >>

NextSend == CallSendKeys

SpecSend == InitPure /\ [][NextSend]_vars

(***************************************************************************)
(* The poll loops (tmux_helper.py wait_for_prompt, wait_for_agent_ready;   *)
(* heartbeat_service.py run_heartbeat_attempt; main.py                     *)
(* _wait_for_idle_after_handoff, _find_new_*_session_id_with_retry;        *)
(* schedule_run.py the completion wait)                                    *)
(*                                                                         *)
(* Time is counted in tenths of a second and passes in sleeps only.  A     *)
(* wait in progress is call = [fn |-> "wait", kind, timeout, codex,        *)
(* elapsed, phase, attempts, done, ret]: elapsed is the time since the     *)
(* loop's clock was started.                                               *)
(***************************************************************************)
ReadinessWaits == {"wait_for_prompt", "wait_for_agent_ready"}

StateWaits == {"heartbeat_ack", "handoff_idle", "completion"}

WaitKinds == ReadinessWaits \cup StateWaits \cup {"find_new"}

\* the sleep at the end of a loop iteration
PollInterval(kind) ==
    CASE kind = "wait_for_prompt" -> 10
      [] kind = "find_new" -> 2
      [] OTHER -> 20

\* the sleep between the start of the clock and the first test of the loop
InitialSleep(kind) ==
    IF kind \in {"wait_for_agent_ready", "heartbeat_ack"} THEN 30 ELSE 0

\* the time the loop condition compares elapsed with
WaitDeadline(kind, timeout) ==
    CASE kind = "handoff_idle" -> IF timeout > 100 THEN timeout ELSE 100
      [] kind = "find_new" -> IF timeout > 0 THEN timeout ELSE 0
      [] kind = "completion" -> IF timeout > 0 THEN timeout ELSE 6000
      [] OTHER -> timeout

\* start_deadline = min(30, int(wait_seconds)) of the completion wait
StartDeadline(timeout) ==
    IF WaitDeadline("completion", timeout) < 300
    THEN WaitDeadline("completion", timeout) ELSE 300

\* what _dismiss_codex_model_choice_prompt sleeps: nothing when the send
\* fails, 0.1 + 1.0 when the prompt goes away, 1.0 more when it does not
DismissSleeps == {0, 11, 21}

WaitObservations(kind) ==
    CASE kind \in ReadinessWaits -> {"prompt", "nothing", "capture_failed", "model_prompt"}
      [] kind = "find_new" -> {"found", "nothing"}
      [] OTHER -> RUNTIME_STATES

WaitDone(w, ret) == [w EXCEPT !.done = TRUE, !.ret = ret]

Sleep(w, ticks) == [w EXCEPT !.elapsed = @ + ticks]

\* mutant: the deadline is tested four seconds late
ReadinessPoll_late_deadline(w, seen, dismiss) ==
    IF seen = "prompt" THEN WaitDone(w, "true")
    ELSE IF w.elapsed >= WaitDeadline(w.kind, w.timeout) + PollInterval(w.kind) + 40
    THEN WaitDone(w, "false")
    ELSE Sleep(w, PollInterval(w.kind))

\* one iteration of wait_for_prompt / wait_for_agent_ready
ReadinessPoll(w, seen, dismiss) ==
    IF w.elapsed >= WaitDeadline(w.kind, w.timeout) THEN WaitDone(w, "false")
    ELSE IF seen = "model_prompt" /\ w.codex /\ w.attempts < 3
    THEN Sleep([w EXCEPT !.attempts = @ + 1], dismiss + 10)
    ELSE IF seen = "prompt" THEN WaitDone(w, "true")
    ELSE Sleep(w, PollInterval(w.kind))

\* one iteration of the acknowledgement wait and of the handoff idle wait
StatePoll(w, seen) ==
    IF w.elapsed >= WaitDeadline(w.kind, w.timeout) THEN WaitDone(w, w.ret)
    ELSE IF seen \in {"idle", "blocked", "error", "stuck"} THEN WaitDone(w, seen)
    ELSE Sleep([w EXCEPT !.ret = seen], PollInterval(w.kind))

\* one iteration of the completion wait: the start phase, then the wait
CompletionPoll(w, seen) ==
    IF w.phase = "start"
    THEN IF w.elapsed >= StartDeadline(w.timeout) THEN [w EXCEPT !.phase = "wait"]
         ELSE IF seen # "idle" THEN [w EXCEPT !.phase = "wait", !.ret = seen]
         ELSE Sleep([w EXCEPT !.ret = seen], 10)
    ELSE StatePoll(w, seen)

\* one iteration of _find_new_*_session_id_with_retry
FindNewPoll(w, seen) ==
    IF seen = "found" THEN WaitDone(w, "found")
    ELSE IF w.elapsed >= WaitDeadline(w.kind, w.timeout) THEN WaitDone(w, "")
    ELSE Sleep(w, PollInterval(w.kind))

\* the timeouts the callers pass, in tenths of a second
WaitTimeouts(kind) ==
    CASE kind = "wait_for_prompt" -> {300}
      [] kind = "wait_for_agent_ready" -> {450}
      [] kind = "heartbeat_ack" -> {10, 20, 300}
      [] kind = "handoff_idle" -> {0, 300}
      [] kind = "find_new" -> {20}
      [] OTHER -> {0, 10, 12000}

\* the call is made and everything before the loop is done; a readiness
\* wait without a pane returns false at once, one without prompt
\* patterns returns true after its first sleep
WaitEnter ==
    /\ call = NoCall
    /\ \E kind \in WaitKinds, codex \in BOOLEAN, early \in {"", "no_target", "no_patterns"} :
       \E timeout \in WaitTimeouts(kind) :
        /\ (codex \/ early # "") => kind \in ReadinessWaits
        /\ call' = [fn |-> "wait", kind |-> kind, timeout |-> timeout, codex |-> codex,
                    elapsed |-> IF early = "no_target" THEN 0
                                ELSE IF early = "no_patterns" /\ kind = "wait_for_prompt"
                                THEN 0 ELSE InitialSleep(kind),
                    phase |-> IF kind = "completion" THEN "start" ELSE "wait",
                    attempts |-> 0, done |-> early # "",
                    ret |-> CASE early = "no_target" -> "false"
                              [] early = "no_patterns" -> "true"
                              [] OTHER -> IF kind \in StateWaits THEN "None" ELSE ""]
    /\ UNCHANGED << hbvars, auditvars, lifevars >>

WaitPoll ==
    /\ call.fn = "wait" /\ ~call.done
    /\ \E seen \in WaitObservations(call.kind), dismiss \in DismissSleeps :
        call' = CASE call.kind \in ReadinessWaits -> ReadinessPoll(call, seen, dismiss)
                  [] call.kind = "find_new" -> FindNewPoll(call, seen)
                  [] call.kind = "completion" -> CompletionPoll(call, seen)
                  [] OTHER -> StatePoll(call, seen)
    /\ UNCHANGED << hbvars, auditvars, lifevars >>

WaitReturn ==
    /\ call.fn = "wait" /\ call.done
    /\ call' = NoCall
    /\ UNCHANGED << hbvars, auditvars, lifevars >>

NextWait ==
    \/ WaitEnter
    \/ WaitPoll
    \/ WaitReturn

SpecWait == InitPure /\ [][NextWait]_vars

(***************************************************************************)
(* services/heartbeat_service.py: parse_heartbeat_recovery_policy          *)
(*                                                                         *)
(* A configured or command-line value is [kind, n, text]: kind "missing"   *)
(* (the key is absent, or the Namespace attribute is None), "null", "bool" *)
(* (n is 0 or 1), "int" (n) or "text".  heartbeat is [recovery_is_dict,    *)
(* recovery, top]: the mapping under "recovery" and the keys of the        *)
(* heartbeat mapping itself, both as records over the policy keys.         *)
(***************************************************************************)
PolicyKeys ==
    {"max_retries", "retry_backoff_seconds", "fallback_mode", "notify_on_failure",
     "notifier_channel"}

RawMissing == [kind |-> "missing", n |-> 0, text |-> ""]

RawNull == [kind |-> "null", n |-> 0, text |-> ""]

RawBool(b) == [kind |-> "bool", n |-> IF b THEN 1 ELSE 0, text |-> ""]

RawInt(n) == [kind |-> "int", n |-> n, text |-> ""]

RawText(t) == [kind |-> "text", n |-> 0, text |-> t]

PolicyDefaults ==
    [max_retries |-> RawInt(1), retry_backoff_seconds |-> RawInt(3),
     fallback_mode |-> RawText("fresh"), notify_on_failure |-> RawBool(FALSE),
     notifier_channel |-> RawText("all")]

\* str(value) of the values the inputs are drawn from
StrOf(value) ==
    CASE value.kind = "text" -> value.text
      [] value.kind = "null" -> "None"
      [] value.kind = "bool" -> IF value.n = 1 THEN "True" ELSE "False"
      [] value.kind = "int" /\ value.n = -2 -> "-2"
      [] value.kind = "int" /\ value.n = -1 -> "-1"
      [] value.kind = "int" /\ value.n = 0 -> "0"
      [] value.kind = "int" /\ value.n = 1 -> "1"
      [] value.kind = "int" /\ value.n = 2 -> "2"
      [] value.kind = "int" /\ value.n = 3 -> "3"
      [] OTHER -> "?"

\* text.strip() on the spellings the inputs are drawn from
PolicyStrip(text) ==
    CASE text = "   " -> ""
      [] text = " ops " -> "ops"
      [] text = " Restart " -> "Restart"
      [] text = " yes " -> "yes"
      [] OTHER -> text

\* text.lower() on the same spellings
PolicyLower(text) ==
    CASE text = "Restart" -> "restart"
      [] text = "NONE" -> "none"
      [] text = "Fresh" -> "fresh"
      [] text = "True" -> "true"
      [] text = "False" -> "false"
      [] text = "None" -> "none"
      [] text = "ON" -> "on"
      [] OTHER -> text

\* Python truth of a value
Truthy(value) ==
    CASE value.kind = "text" -> value.text # ""
      [] value.kind = "int" -> value.n # 0
      [] value.kind = "bool" -> value.n = 1
      [] OTHER -> FALSE

\* mutant: the parsed integer is returned as it is
_parse_non_negative_int_unclamped(value, default) ==
    IF value.kind \in {"int", "bool"} THEN value.n ELSE default

\* int(value) raises on None and on text that is no number: the default
_parse_non_negative_int(value, default) ==
    IF value.kind \in {"int", "bool"}
    THEN IF value.n < 0 THEN 0 ELSE value.n
    ELSE default

_parse_bool(value, default) ==
    IF value.kind = "bool" THEN value.n = 1
    ELSE IF value.kind = "null" THEN default
    ELSE IF PolicyLower(PolicyStrip(StrOf(value))) \in {"1", "true", "yes", "y", "on"}
    THEN TRUE
    ELSE IF PolicyLower(PolicyStrip(StrOf(value))) \in {"0", "false", "no", "n", "off"}
    THEN FALSE
    ELSE default

\* raw: the recovery mapping, completed by the keys of the heartbeat mapping
RawPolicy(heartbeat) ==
    [key \in PolicyKeys |->
        IF heartbeat.recovery_is_dict /\ heartbeat.recovery[key].kind # "missing"
        THEN heartbeat.recovery[key]
        ELSE heartbeat.top[key]]

\* raw.get(key, defaults[key])
RawGet(raw, key) == IF raw[key].kind = "missing" THEN PolicyDefaults[key] ELSE raw[key]

\* value or defaults[key]
OrDefault(value, key) == IF Truthy(value) THEN value ELSE PolicyDefaults[key]

NoArgs == [given |-> FALSE]

parse_heartbeat_recovery_policy(heartbeat, args, fallback_modes) ==
    LET raw == RawPolicy(heartbeat)
        normalized_fallback_modes ==
            IF fallback_modes = {} THEN {"none", "fresh"} ELSE fallback_modes
        configured_mode ==
            PolicyLower(PolicyStrip(StrOf(OrDefault(RawGet(raw, "fallback_mode"),
                                                    "fallback_mode"))))
        renamed_mode == IF configured_mode = "restart" THEN "fresh" ELSE configured_mode
        configured_channel ==
            PolicyStrip(StrOf(OrDefault(RawGet(raw, "notifier_channel"),
                                        "notifier_channel")))
        policy ==
            [max_retries |->
                _parse_non_negative_int(RawGet(raw, "max_retries"),
                                        PolicyDefaults.max_retries.n),
             retry_backoff_seconds |->
                _parse_non_negative_int(RawGet(raw, "retry_backoff_seconds"),
                                        PolicyDefaults.retry_backoff_seconds.n),
             fallback_mode |->
                IF renamed_mode \in normalized_fallback_modes THEN renamed_mode
                ELSE PolicyDefaults.fallback_mode.text,
             notify_on_failure |-> _parse_bool(RawGet(raw, "notify_on_failure"), FALSE),
             notifier_channel |->
                IF configured_channel = "" THEN PolicyDefaults.notifier_channel.text
                ELSE configured_channel]
        args_mode == PolicyLower(PolicyStrip(StrOf(args.fallback_mode)))
        args_renamed == IF args_mode = "restart" THEN "fresh" ELSE args_mode
    IN  IF ~args.given THEN policy
        ELSE [max_retries |->
                 IF args.retry.kind \notin {"missing", "null"}
                 THEN _parse_non_negative_int(args.retry, policy.max_retries)
                 ELSE policy.max_retries,
              retry_backoff_seconds |->
                 IF args.backoff_seconds.kind \notin {"missing", "null"}
                 THEN _parse_non_negative_int(args.backoff_seconds,
                                              policy.retry_backoff_seconds)
                 ELSE policy.retry_backoff_seconds,
              fallback_mode |->
                 IF Truthy(args.fallback_mode) /\ args_renamed \in normalized_fallback_modes
                 THEN args_renamed
                 ELSE policy.fallback_mode,
              notify_on_failure |->
                 IF args.notify_on_failure.kind \notin {"missing", "null"}
                 THEN _parse_bool(args.notify_on_failure, policy.notify_on_failure)
                 ELSE policy.notify_on_failure,
              notifier_channel |->
                 IF Truthy(args.notifier_channel)
                    /\ PolicyStrip(StrOf(args.notifier_channel)) # ""
                 THEN PolicyStrip(StrOf(args.notifier_channel))
                 ELSE policy.notifier_channel]

\* main.py: the set the heartbeat command passes as fallback_modes
_HEARTBEAT_FALLBACK_MODES == {"none", "fresh"}

(***************************************************************************)
(* SpecPolicy: the recovery policy of heartbeat configurations and         *)
(* command lines                                                           *)
(***************************************************************************)
NoKeys == [key \in PolicyKeys |-> RawMissing]

IntValues == {RawInt(-2), RawInt(-1), RawInt(0), RawInt(2), RawBool(TRUE)}

JunkValues == {RawNull, RawText("many")}

ModeValues ==
    {RawText(t) : t \in {"fresh", "none", "restart", " Restart ", "NONE", "later", ""}}
    \cup {RawNull, RawInt(2)}

BoolValues ==
    {RawBool(TRUE), RawBool(FALSE), RawNull, RawInt(1), RawInt(0), RawInt(2)}
    \cup {RawText(t) : t \in {" yes ", "ON", "off", "maybe"}}

ChannelValues ==
    {RawText(t) : t \in {"ops", " ops ", "   ", ""}} \cup {RawNull, RawInt(0), RawInt(2)}

KeyValues(key) ==
    CASE key \in {"max_retries", "retry_backoff_seconds"} -> IntValues \cup JunkValues
      [] key = "fallback_mode" -> ModeValues
      [] key = "notify_on_failure" -> BoolValues
      [] OTHER -> ChannelValues

\* one key set, under "recovery" or in the heartbeat mapping itself
OneKeyMappings ==
    UNION {{[NoKeys EXCEPT ![key] = v] : v \in KeyValues(key)} : key \in PolicyKeys}

FullMapping ==
    [max_retries |-> RawInt(2), retry_backoff_seconds |-> RawInt(0),
     fallback_mode |-> RawText("none"), notify_on_failure |-> RawBool(TRUE),
     notifier_channel |-> RawText("ops")]

HeartbeatConfigs ==
    {[recovery_is_dict |-> d, recovery |-> NoKeys, top |-> NoKeys] : d \in BOOLEAN}
    \cup {[recovery_is_dict |-> TRUE, recovery |-> r, top |-> t] :
             r \in OneKeyMappings, t \in {NoKeys, FullMapping}}
    \cup {[recovery_is_dict |-> d, recovery |-> FullMapping, top |-> t] :
             d \in BOOLEAN, t \in OneKeyMappings}

\* what the heartbeat run parser leaves in the Namespace
CliArgs(retry, backoff, mode, notify, channel) ==
    [given |-> TRUE, retry |-> retry, backoff_seconds |-> backoff,
     fallback_mode |-> mode, notify_on_failure |-> RawBool(notify),
     notifier_channel |-> channel]

NoOverrides == CliArgs(RawMissing, RawMissing, RawMissing, FALSE, RawMissing)

PolicyArgs ==
    {NoOverrides}
    \cup {[NoOverrides EXCEPT !.retry = v] : v \in {RawInt(-1), RawInt(0), RawInt(3)}}
    \cup {[NoOverrides EXCEPT !.backoff_seconds = v] : v \in {RawInt(-1), RawInt(0), RawInt(1)}}
    \cup {[NoOverrides EXCEPT !.fallback_mode = RawText(t)] : t \in {"none", "fresh"}}
    \cup {[NoOverrides EXCEPT !.notify_on_failure = RawBool(TRUE)]}
    \cup {[NoOverrides EXCEPT !.notifier_channel = RawText(t)] : t \in {"ops", " ops ", "   ", ""}}
    \cup {CliArgs(RawInt(3), RawInt(1), RawText("none"), TRUE, RawText("ops"))}

CallParsePolicy ==
    /\ call = NoCall
    /\ \E heartbeat \in HeartbeatConfigs, args \in PolicyArgs :
        /\ call' = [fn |-> "parse_heartbeat_recovery_policy", heartbeat |-> heartbeat,
                    args |-> args,
                    ret |-> parse_heartbeat_recovery_policy(heartbeat, args,
                                                            _HEARTBEAT_FALLBACK_MODES)]
        /\ UNCHANGED << hbvars, auditvars, lifevars >>

NextPolicy ==
    \/ CallParsePolicy
    \/ CommandExit

SpecPolicy == InitPure /\ [][NextPolicy]_vars

(***************************************************************************)
(* runtime_state.py: detect_error_reason                                   *)
(*                                                                         *)
(* The output is a sequence of lines and a line a set of phrases, no       *)
(* phrase running into the next.  HasText is Python's `needle in text` and *)
(* HasWord is re.search(r"\bword\b", text), both on one phrase.            *)
(***************************************************************************)
MaxLines == 2

MaxPhrases == 2

ReasonPhrases ==
    {"timeout", "timed out", "ETIMEDOUT", "deadline exceeded", "error", "errors",
     "failure", "failure modes", "connection refused", "error 522"}

\* output.lower() on one phrase
LowerPhrase(phrase) ==
    IF phrase = "ETIMEDOUT" THEN "etimedout" ELSE phrase

HasText(phrase, needle) ==
    \/ phrase = needle
    \/ needle = "error" /\ phrase \in {"errors", "error 522"}
    \/ needle = "failure" /\ phrase = "failure modes"

HasWord(phrase, word) ==
    \/ phrase = word
    \/ word = "error" /\ phrase = "error 522"
    \/ word = "failure" /\ phrase = "failure modes"

\* lowered.splitlines()
LoweredLines(output) == [i \in 1..Len(output) |-> {LowerPhrase(p) : p \in output[i]}]

LineHas(line, needle) == \E p \in line : HasText(p, needle)

LineMatches(line, words) == \E p \in line, w \in words : HasWord(p, w)

\* needle in lowered
OutputHas(lines, needle) == \E i \in 1..Len(lines) : LineHas(lines[i], needle)

\* re.search over the whole of lowered
OutputMatches(lines, words) == \E i \in 1..Len(lines) : LineMatches(lines[i], words)

TimeoutErrorLine(line) ==
    /\ LineHas(line, "timeout")
    /\ \/ LineMatches(line, {"etimedout", "deadline exceeded",
                             "context deadline exceeded", "timed out"})
       \/ LineMatches(line, {"error", "failed", "exception", "traceback"})
       \/ LineMatches(line, {"failure"}) /\ ~LineMatches(line, {"failure modes"})

detect_error_reason(output) ==
    LET lowered == LoweredLines(output)
    IN  IF \A i \in 1..Len(output) : output[i] = {} THEN None
        ELSE IF OutputHas(lowered, "stopped after 10 redirects") THEN "redirect_loop"
        ELSE IF OutputHas(lowered, "error 522") \/ OutputHas(lowered, "cloudflare ray id")
        THEN "cloudflare_522"
        ELSE IF OutputHas(lowered, "error: 500 post ") THEN "http_500"
        ELSE IF OutputHas(lowered, "api error: 400") /\ OutputHas(lowered, "unknown provider")
        THEN "unknown_provider"
        ELSE IF OutputHas(lowered, "invalid_request_error") THEN "invalid_request"
        ELSE IF OutputHas(lowered, "timed out") THEN "timeout"
        ELSE IF /\ OutputHas(lowered, "timeout")
                /\ \/ OutputMatches(lowered, {"etimedout", "deadline exceeded",
                                              "context deadline exceeded"})
                   \/ \E i \in 1..Len(lowered) : TimeoutErrorLine(lowered[i])
        THEN "timeout"
        ELSE IF OutputHas(lowered, "econnrefused") \/ OutputHas(lowered, "connection refused")
        THEN "connection_refused"
        ELSE IF OutputHas(lowered, "etimedout") THEN "connection_timed_out"
        ELSE None

(***************************************************************************)
(* SpecReason: detect_error_reason on enumerated outputs                   *)
(***************************************************************************)
ReasonLines == {line \in SUBSET ReasonPhrases : Cardinality(line) <= MaxPhrases}

ReasonOutputs == UNION {[1..n -> ReasonLines] : n \in 0..MaxLines}

CallDetectErrorReason ==
    /\ call = NoCall
    /\ \E output \in ReasonOutputs :
        /\ call' = [fn |-> "detect_error_reason", output |-> output,
                    ret |-> detect_error_reason(output)]
        /\ UNCHANGED << hbvars, auditvars, lifevars >>

NextReason ==
    \/ CallDetectErrorReason
    \/ CommandExit

SpecReason == InitPure /\ [][NextReason]_vars

(***************************************************************************)
(* services/heartbeat_service.py: the wait loop of run_heartbeat_attempt,  *)
(* poll by poll                                                            *)
(*                                                                         *)
(* polls is what each call of get_agent_runtime_state would answer and how *)
(* many seconds it takes, [state, took]; the clock also advances in the    *)
(* sleeps.                                                                 *)
(***************************************************************************)
MaxPolls == 3

\* mutant: stuck does not end the wait
RECURSIVE AckWait_polls_past_stuck(_, _, _, _)
AckWait_polls_past_stuck(timeout, polls, elapsed, observed) ==
    IF elapsed >= timeout THEN [observed |-> observed, elapsed |-> elapsed]
    ELSE IF Head(polls).state \in {"idle", "blocked", "error"}
    THEN [observed |-> Append(observed, Head(polls).state),
          elapsed |-> elapsed + Head(polls).took]
    ELSE AckWait_polls_past_stuck(timeout, Tail(polls), elapsed + Head(polls).took + 2,
                                  Append(observed, Head(polls).state))

\* while (time() - start_time) < timeout_seconds: poll, break or sleep(2)
RECURSIVE AckWait(_, _, _, _)
AckWait(timeout, polls, elapsed, observed) ==
    IF elapsed >= timeout THEN [observed |-> observed, elapsed |-> elapsed]
    ELSE IF Head(polls).state = "idle" \/ Head(polls).state \in {"blocked", "error", "stuck"}
    THEN [observed |-> Append(observed, Head(polls).state),
          elapsed |-> elapsed + Head(polls).took]
    ELSE AckWait(timeout, Tail(polls), elapsed + Head(polls).took + 2,
                 Append(observed, Head(polls).state))

\* (last_state, timed_out) after the loop; the loop follows sleep(3)
AckOutcome(timeout, waited) ==
    LET last_state == IF waited.observed = << >> THEN None
                      ELSE waited.observed[Len(waited.observed)]
    IN  << last_state, last_state # "idle" /\ waited.elapsed >= timeout >>

NotWaited == [observed |-> << >>, elapsed |-> 0]

\* the attempt with its polls: what was observed, and the result
HeartbeatAttempt(send_ok, timeout, polls) ==
    LET Attempted(waited) ==
            [observed |-> waited.observed, elapsed |-> waited.elapsed,
             result |-> run_heartbeat_attempt(send_ok, timeout, AckOutcome(timeout, waited))]
    IN  IF send_ok /\ timeout > 0 THEN Attempted(AckWait(timeout, polls, 3, << >>))
        ELSE Attempted(NotWaited)

(***************************************************************************)
(* SpecAttempt: one heartbeat attempt                                      *)
(***************************************************************************)
PolledStates == {"idle", "busy", "blocked", "error", "stuck"}

PollPlans == [1..MaxPolls -> [state : PolledStates, took : {0, 2}]]

\* no timeout, timeouts the first sleep uses up, and timeouts that leave
\* room for one poll and for three
AttemptTimeouts == {0, 2, 3, 4, 8}

CallHeartbeatAttempt ==
    /\ call = NoCall
    /\ \E send_ok \in BOOLEAN, timeout \in AttemptTimeouts, polls \in PollPlans :
        LET Returned(r) ==
                [fn |-> "run_heartbeat_attempt", send_ok |-> send_ok, timeout |-> timeout,
                 polls |-> polls, observed |-> r.observed, elapsed |-> r.elapsed,
                 result |-> r.result]
        IN  call' = Returned(HeartbeatAttempt(send_ok, timeout, polls))
    /\ UNCHANGED << hbvars, auditvars, lifevars >>

NextAttempt ==
    \/ CallHeartbeatAttempt
    \/ CommandExit

SpecAttempt == InitPure /\ [][NextAttempt]_vars

(***************************************************************************)
(* SpecSkip: one invocation, of the heartbeat command or of a scheduled    *)
(* run, for an agent that is running or not                                *)
(***************************************************************************)
RunningPanes == start_session(NoPanes, "emp-0001", "launch", "sessions", TRUE).tmux

InitSkip ==
    /\ env \in [tmux : BOOLEAN, found : BOOLEAN, enabled : BOOLEAN,
                heartbeat : BOOLEAN, hb_enabled : BOOLEAN]
    /\ recovery_policy = [max_retries |-> 1, retry_backoff_seconds |-> 3,
                          fallback_mode |-> "fresh", notify_on_failure |-> TRUE]
    /\ session_mode \in {"restore", "fresh"}
    /\ timeout_seconds = 30
    /\ tmux \in {NoPanes, RunningPanes}
    /\ session = session_exists(tmux, "emp-0001")
    /\ HbInitial
    /\ call = NoCall
    /\ audit_dir = NoAuditDir
    /\ now = Epoch
    /\ provider = NoProvider

\* cmd_heartbeat_run, step by step
HeartbeatRun ==
    /\ call = NoCall
    /\ Next

\* cmd_schedule_run, when this invocation is a scheduled run
ScheduleRun ==
    /\ pc = "start"
    /\ CmdScheduleRun

NextSkip ==
    \/ HeartbeatRun
    \/ ScheduleRun

SpecSkip == InitSkip /\ [][NextSkip]_vars

(***************************************************************************)
(* tmux_helper.py: get_agent_runtime_state and the model-choice dialog     *)
(*                                                                         *)
(* The queries of one process are call = [fn |-> "runtime_state", codex,   *)
(* clock, last_failure, queries, q, now, failed_at, before, attempted,      *)
(* state]: last_failure is the entry of _CODEX_MODEL_PROMPT_LAST_FAILURE,  *)
(* kept in the memory of the process; failed_at is the start of the last   *)
(* query whose dismissal failed and before its value when q was made.      *)
(* Time is counted in tenths of a second.  A screen is a sequence of       *)
(* characters: "m" stands for the text of the dialog, "b" for a busy       *)
(* pattern, ">" for the prompt.                                            *)
(***************************************************************************)
MaxQueries == 2

_CODEX_MODEL_PROMPT_FAILURE_THROTTLE_S == 15 * 10

NoFailure == -1

CaptureFailed == << "!" >>

_is_codex_model_choice_prompt(output) == Contains(output, << "m" >>)

QueryConfig ==
    [stuck_after_seconds |-> 180, blocked_patterns |-> << << "x" >> >>,
     busy_patterns |-> << << "b" >> >>]

\* what _dismiss_codex_model_choice_prompt returns and how long it takes
DismissOutcome(dismiss) ==
    CASE dismiss = "cleared" -> [ok |-> TRUE, took |-> 10]
      [] dismiss = "cleared_by_down" -> [ok |-> TRUE, took |-> 20]
      [] dismiss = "still_showing" -> [ok |-> FALSE, took |-> 20]
      [] OTHER -> [ok |-> FALSE, took |-> 0]

QueryAnswer(payload, failure, attempted, took) ==
    [state |-> payload.state, reason |-> payload.reason, last_failure |-> failure,
     attempted |-> attempted, took |-> took]

\* mutant: a failed dismissal is not remembered
get_agent_runtime_state_unthrottled(last_failure, t, codex, q) ==
    LET Eval(output, running, readable, force) ==
            evaluate_runtime_state(output, QueryConfig, NoElapsed, None, running,
                                   readable, force)
    IN  IF ~q.session THEN QueryAnswer(Eval(<< >>, FALSE, TRUE, None), last_failure, FALSE, 0)
        ELSE IF ~q.target
        THEN QueryAnswer(Eval(<< >>, TRUE, FALSE, "unknown"), last_failure, FALSE, 0)
        ELSE IF q.screen = CaptureFailed
        THEN QueryAnswer(Eval(<< >>, TRUE, FALSE, None), last_failure, FALSE, 0)
        ELSE IF codex /\ _is_codex_model_choice_prompt(q.screen)
        THEN IF DismissOutcome(q.dismiss).ok
             THEN QueryAnswer(Eval(IF q.recapture = CaptureFailed THEN << >> ELSE q.recapture,
                                   TRUE, q.recapture # CaptureFailed, None),
                              last_failure, TRUE, DismissOutcome(q.dismiss).took + 5)
             ELSE QueryAnswer(Eval(q.screen, TRUE, TRUE, "blocked"), last_failure, TRUE,
                              DismissOutcome(q.dismiss).took)
        ELSE QueryAnswer(Eval(q.screen, TRUE, TRUE, None), last_failure, FALSE, 0)

\* last_failure: _CODEX_MODEL_PROMPT_LAST_FAILURE.get(agent_id); t: time.time()
get_agent_runtime_state(last_failure, t, codex, q) ==
    LET Eval(output, running, readable, force) ==
            evaluate_runtime_state(output, QueryConfig, NoElapsed, None, running,
                                   readable, force)
    IN  IF ~q.session THEN QueryAnswer(Eval(<< >>, FALSE, TRUE, None), last_failure, FALSE, 0)
        ELSE IF ~q.target
        THEN QueryAnswer(Eval(<< >>, TRUE, FALSE, "unknown"), last_failure, FALSE, 0)
        ELSE IF q.screen = CaptureFailed
        THEN QueryAnswer(Eval(<< >>, TRUE, FALSE, None), last_failure, FALSE, 0)
        ELSE IF codex /\ _is_codex_model_choice_prompt(q.screen)
        THEN IF /\ last_failure # NoFailure
                /\ t - last_failure < _CODEX_MODEL_PROMPT_FAILURE_THROTTLE_S
             THEN QueryAnswer(Eval(q.screen, TRUE, TRUE, "blocked"), last_failure, FALSE, 0)
             ELSE IF DismissOutcome(q.dismiss).ok
             THEN QueryAnswer(Eval(IF q.recapture = CaptureFailed THEN << >> ELSE q.recapture,
                                   TRUE, q.recapture # CaptureFailed, None),
                              last_failure, TRUE, DismissOutcome(q.dismiss).took + 5)
             ELSE QueryAnswer(Eval(q.screen, TRUE, TRUE, "blocked"), t, TRUE,
                              DismissOutcome(q.dismiss).took)
        ELSE QueryAnswer(Eval(q.screen, TRUE, TRUE, None), last_failure, FALSE, 0)

(***************************************************************************)
(* SpecDialog: the waits, and the runtime-state queries of one process     *)
(***************************************************************************)
Screens == { << ">" >>, << "b" >>, << "m" >>, << "m", "b" >>, CaptureFailed }

DismissResults == {"no_session", "send_failed", "cleared", "cleared_by_down", "still_showing"}

\* the time between the end of one query and the start of the next
QueryGaps == {0, 20, 129, 130}

NoQuery ==
    [session |-> FALSE, target |-> FALSE, screen |-> CaptureFailed,
     dismiss |-> "no_session", recapture |-> CaptureFailed]

\* the answers of the terminal to one query; what the query does not get
\* to ask is left at its value in NoQuery
Queries ==
    {NoQuery, [NoQuery EXCEPT !.session = TRUE]}
    \cup {[NoQuery EXCEPT !.session = TRUE, !.target = TRUE, !.screen = screen] :
             screen \in Screens}
    \cup {[NoQuery EXCEPT !.session = TRUE, !.target = TRUE, !.screen = screen,
                          !.dismiss = dismiss] :
             screen \in {<< "m" >>, << "m", "b" >>}, dismiss \in DismissResults}
    \cup {[NoQuery EXCEPT !.session = TRUE, !.target = TRUE, !.screen = screen,
                          !.dismiss = dismiss, !.recapture = recapture] :
             screen \in {<< "m" >>, << "m", "b" >>},
             dismiss \in {"cleared", "cleared_by_down"}, recapture \in Screens}

ProcessStart ==
    /\ call = NoCall
    /\ \E codex \in BOOLEAN :
        call' = [fn |-> "runtime_state", codex |-> codex, clock |-> 0,
                 last_failure |-> NoFailure, queries |-> 0, q |-> NoQuery, now |-> 0,
                 failed_at |-> NoFailure, before |-> NoFailure, attempted |-> FALSE, state |-> "", reason |-> ""]
    /\ UNCHANGED << hbvars, auditvars, lifevars >>

RuntimeQuery ==
    /\ call.fn = "runtime_state" /\ call.queries < MaxQueries
    /\ \E gap \in QueryGaps, q \in Queries :
        LET Answered(t, r) ==
                [call EXCEPT !.clock = t + r.took, !.last_failure = r.last_failure,
                             !.queries = @ + 1, !.q = q, !.now = t,
                             !.failed_at = IF r.attempted /\ ~DismissOutcome(q.dismiss).ok
                                           THEN t ELSE @,
                             !.before = call.failed_at, !.attempted = r.attempted,
                             !.state = r.state, !.reason = r.reason]
        IN  call' = Answered(call.clock + gap,
                             get_agent_runtime_state(call.last_failure, call.clock + gap,
                                                     call.codex, q))
    /\ UNCHANGED << hbvars, auditvars, lifevars >>

ProcessExit ==
    /\ call.fn = "runtime_state"
    /\ call' = NoCall
    /\ UNCHANGED << hbvars, auditvars, lifevars >>

NextDialog ==
    \/ WaitEnter
    \/ WaitPoll
    \/ WaitReturn
    \/ ProcessStart
    \/ RuntimeQuery
    \/ ProcessExit

SpecDialog == InitPure /\ [][NextDialog]_vars

(***************************************************************************)
(* SpecOperator: a heartbeat run while an operator may stop the agent      *)
(*                                                                         *)
(* `agent stop` from another terminal kills the session between two steps  *)
(* of the run; the history of the run records when.                        *)
(***************************************************************************)
InitOperator ==
    /\ env = [tmux |-> TRUE, found |-> TRUE, enabled |-> TRUE,
              heartbeat |-> TRUE, hb_enabled |-> TRUE]
    /\ recovery_policy \in [max_retries : {0, 1}, retry_backoff_seconds : {3},
                            fallback_mode : {"none", "fresh"},
                            notify_on_failure : {TRUE}]
    /\ session_mode \in {"restore", "fresh"}
    /\ timeout_seconds \in {0, 30}
    /\ session \in BOOLEAN
    /\ HbInitial
    /\ call = NoCall
    /\ audit_dir = NoAuditDir
    /\ now = Epoch
    /\ LifeAtRest

StoppedByOperator == \E i \in 1..Len(trace) : trace[i] = Ev("operator_stop")

\* stop_session run by somebody else, at most once during the run
OperatorStop ==
    /\ pc \notin {"start", "done"}
    /\ session /\ ~StoppedByOperator
    /\ session' = FALSE
    /\ Log(Ev("operator_stop"))
    /\ UNCHANGED << pc, env, recovery_policy, session_mode, timeout_seconds,
                    session_gen, context_left_percent, handoff, rollover_handoff_file,
                    prefixed, attempt, result, final_attempt_result, last,
                    recovery_action, audit, rc, call, auditvars, lifevars >>

NextOperator ==
    \/ Next
    \/ OperatorStop

SpecOperator == InitOperator /\ [][NextOperator]_vars

(***************************************************************************)
(* SpecIds: successive heartbeat runs and their heartbeat ids              *)
(*                                                                         *)
(* Each run reads the clock for its id and writes the audit event of its   *)
(* attempt; call = [fn |-> "heartbeat_runs", runs] lists the invocations   *)
(* made so far as [agent_id, started, hb_id].                              *)
(***************************************************************************)
MaxInvocations == 2

\* time.strftime("%Y%m%d-%H%M%S"): the text of the whole seconds of the clock
heartbeat_id(t) == ToString(t.sec)

Invocations == IF call = NoCall THEN << >> ELSE call.runs

HeartbeatInvocation ==
    /\ call = NoCall \/ call.fn = "heartbeat_runs"
    /\ Len(Invocations) < MaxInvocations
    /\ \E file_id \in AgentFileIds, started \in {now} \cup LaterTimes(now),
          profile \in {ProfileAck, ProfileTimeout} :
       \E t \in LaterTimes(started) :
        /\ now' = t
        /\ audit_dir' = _append_heartbeat_audit_event(audit_dir, t,
                            AppendKw(file_id, heartbeat_id(started), profile))
        /\ call' = [fn |-> "heartbeat_runs",
                    runs |-> Append(Invocations,
                                    [agent_id |-> get_agent_id(file_id),
                                     started |-> started,
                                     hb_id |-> heartbeat_id(started)])]
    /\ UNCHANGED << hbvars, lifevars >>

NextIds == HeartbeatInvocation

SpecIds == InitPure /\ [][NextIds]_vars

(***************************************************************************)
(* SpecRace: start_session run by several processes at once                *)
(*                                                                         *)
(* The check of session_exists and the tmux command that creates the       *)
(* container are two steps of a process, and the steps of the processes    *)
(* interleave.  call = [fn |-> "start_sessions", agent_id, starters], a    *)
(* starter being [pc, layout, ret] with pc "check", "create" or "done".    *)
(***************************************************************************)
MaxStarters == 2

\* lines 212-242, after the check: tmux new-window / new-session.  tmux
\* itself refuses a second session of the same name; tmux_ok: it did not
\* fail for another reason
create_container(tm, agent_id, command, layout, tmux_ok) ==
    IF layout # "windows" /\ _tmux_has_session(tm, _session_name_for_agent(agent_id))
    THEN [tmux |-> tm, ret |-> FALSE]
    ELSE IF tmux_ok
    THEN [tmux |-> tm \cup {NewContainer(agent_id, command, layout)}, ret |-> TRUE]
    ELSE [tmux |-> tm, ret |-> FALSE]

\* the shared group session with the window of another agent in it
GroupPanes == {NewContainer("other", "launch", "windows")}

InitRace ==
    /\ env = [tmux |-> TRUE, found |-> TRUE, enabled |-> TRUE,
              heartbeat |-> TRUE, hb_enabled |-> TRUE]
    /\ recovery_policy = [max_retries |-> 1, retry_backoff_seconds |-> 3,
                          fallback_mode |-> "fresh", notify_on_failure |-> FALSE]
    /\ session_mode = "restore"
    /\ timeout_seconds = 0
    /\ session = FALSE
    /\ HbInitial
    /\ call = NoCall
    /\ audit_dir = NoAuditDir
    /\ now = Epoch
    /\ tmux \in {NoPanes, GroupPanes}
    /\ provider = NoProvider

Starting == call.fn = "start_sessions"

StartersEnter ==
    /\ call = NoCall
    /\ \E agent_id \in AgentNames, n \in 1..MaxStarters :
       \E layouts \in [1..n -> SessionLayouts] :
        call' = [fn |-> "start_sessions", agent_id |-> agent_id,
                 starters |-> [p \in 1..n |->
                                 [pc |-> "check", layout |-> layouts[p], ret |-> FALSE]]]
    /\ UNCHANGED << hbvars, auditvars, lifevars >>

\* line 209: if session_exists(agent_id): return False
StarterCheck ==
    /\ Starting
    /\ \E p \in DOMAIN call.starters :
        /\ call.starters[p].pc = "check"
        /\ call' = [call EXCEPT !.starters[p].pc =
                        IF session_exists(tmux, call.agent_id) THEN "done" ELSE "create"]
    /\ UNCHANGED << hbvars, auditvars, lifevars >>

StarterCreate ==
    /\ Starting
    /\ \E p \in DOMAIN call.starters, tmux_ok \in BOOLEAN :
        /\ call.starters[p].pc = "create"
        /\ LET Created(r) ==
                /\ tmux' = r.tmux
                /\ call' = [call EXCEPT !.starters[p].pc = "done",
                                        !.starters[p].ret = r.ret]
           IN  Created(create_container(tmux, call.agent_id, "launch",
                                        call.starters[p].layout, tmux_ok))
    /\ UNCHANGED << hbvars, auditvars, provider >>

StartersExit ==
    /\ Starting
    /\ \A p \in DOMAIN call.starters : call.starters[p].pc = "done"
    /\ call' = NoCall
    /\ UNCHANGED << hbvars, auditvars, lifevars >>

NextRace ==
    \/ StartersEnter
    \/ StarterCheck
    \/ StarterCreate
    \/ StartersExit

SpecRace == InitRace /\ [][NextRace]_vars

(***************************************************************************)
(* Properties                                                              *)
(***************************************************************************)
Positions(name) == { i \in 1..Len(trace) : trace[i].ev = name }

Count(name) == Cardinality(Positions(name))

\* positions of the attempts of one phase
AttemptsOf(phase) ==
    { i \in Positions("attempt") : trace[i].phase = phase }

\* the executed attempts in order: all of them, and those of the retry phase
Attempts == SelectSeq(trace, LAMBDA e : e.ev = "attempt")

RetryAttempts == SelectSeq(Attempts, LAMBDA e : e.phase = "attempt")

Succeeded(res) == res.send_status = "ok" /\ res.ack_status \in {"ack", "not_checked"}

\* the run got past its skip checks and is now behind the retry loop
BehindRetryLoop ==
    \/ pc \in {"post", "fb_restart", "fb_attempt", "fb_audit", "final", "notify"}
    \/ /\ pc = "done"
       /\ trace[Len(trace)].ev \in {"return_success", "return_recovered",
                                    "return_failure"}

RunSucceeded == pc = "done" /\ trace[Len(trace)].ev \in {"return_success", "return_recovered"}

RunFailed == pc = "done" /\ trace[Len(trace)].ev = "return_failure"

\* C1: the retry phase runs between 1 and max_retries+1 attempts; nothing is
\* attempted after a successful attempt; attempt k+1 follows attempt k only
\* when k failed with a retryable failure type and fewer than max_retries
\* retries were used; a backoff sleep lies between two consecutive attempts
\* of the retry phase and never after the last one.
C1_RetryLoopShape ==
    LET A == AttemptsOf("attempt")
        B == Positions("backoff")
        R == RetryAttempts
        n == Len(R)
    IN  /\ n <= recovery_policy.max_retries + 1
        /\ BehindRetryLoop => n >= 1
        /\ \A k \in 1..(Len(Attempts) - 1) : ~Succeeded(Attempts[k].res)
        /\ \A k \in 1..(n - 1) :
              /\ ~Succeeded(R[k].res)
              /\ R[k].res.failure_type
                    \in {"send_fail", "no_ack", "timeout", "blocked"}
              /\ k - 1 < recovery_policy.max_retries
        /\ \A b \in B :
              /\ \E i \in A : i < b
              /\ (\E j \in A : j > b) \/ pc = "attempt"
              /\ BehindRetryLoop => \E j \in A : j > b
        /\ \A b1 \in B : \A b2 \in B :
              b1 < b2 => \E i \in A : b1 < i /\ i < b2

\* a run that retried after a backoff and is behind its retry loop
C1_Witness ==
    /\ BehindRetryLoop
    /\ Len(RetryAttempts) = 2
    /\ Count("backoff") = 1

\* C2: whenever the run is at a decision (retry, back off, restart, notify,
\* return), the audit file holds one event per executed attempt, in order
\* and with that attempt's statuses.
C2_AuditBeforeDecision ==
    pc \notin {"audit", "fb_audit"} =>
        LET E == Attempts
        IN  /\ Len(audit) = Len(E)
            /\ \A k \in 1..Len(E) :
                  /\ audit[k].hb_id = HeartbeatId
                  /\ audit[k].send_status = E[k].res.send_status
                  /\ audit[k].ack_status = E[k].res.ack_status
                  /\ audit[k].failure_type = E[k].res.failure_type

\* a failed run that returns with three audited attempts (two in the retry
\* phase and the fallback attempt)
C2_Witness ==
    /\ RunFailed
    /\ Len(Attempts) = 3
    /\ Len(audit) = 3

C4_OutcomeIsLastAttempt ==
    (pc = "done" /\ BehindRetryLoop) =>
        LET E == Attempts
            lastres == E[Len(E)].res
        IN  /\ rc \in {0, 1}
            /\ (rc = 0) <=> Succeeded(lastres)
            /\ RunSucceeded <=> (rc = 0)
            /\ ( /\ recovery_policy.max_retries = 1
                 /\ recovery_policy.retry_backoff_seconds = 0
                 /\ recovery_policy.fallback_mode = "none"
                 /\ Len(E) >= 2
                 /\ E[1].res.failure_type = "send_fail"
                 /\ E[2].res.send_status = "ok"
                 /\ E[2].res.ack_status = "ack" ) =>
                  /\ rc = 0
                  /\ Len(audit) = 2
                  /\ Count("notify") = 0

\* the end-to-end scenario: send_fail, then ok/ack, no fallback configured
C4_Witness ==
    /\ pc = "done"
    /\ rc = 0
    /\ recovery_policy.max_retries = 1
    /\ recovery_policy.retry_backoff_seconds = 0
    /\ recovery_policy.fallback_mode = "none"
    /\ Len(Attempts) = 2
    /\ Attempts[1].res.failure_type = "send_fail"
    /\ Attempts[2].res.ack_status = "ack"

\* C5: the notifier is called once when a run that applied its recovery
\* policy ends in failure with notify_on_failure set, never otherwise, and
\* nothing but the return follows the call.
C5_NotifyOnce ==
    LET N == Positions("notify")
    IN  /\ Cardinality(N) <= 1
        /\ \A i \in N :
              /\ recovery_policy.notify_on_failure
              /\ \A j \in (i + 1)..Len(trace) : trace[j].ev = "return_failure"
              /\ recovery_policy.fallback_mode = "fresh" =>
                    \E r \in 1..(i - 1) : trace[r].ev \in {"restart_ok", "restart_failed"}
              /\ \A r \in Positions("restart_ok") :
                    \E f \in AttemptsOf("fallback") : r < f /\ f < i
        /\ (RunFailed /\ recovery_policy.notify_on_failure) => Cardinality(N) = 1
        /\ pc = "done" =>
              (Cardinality(N) = 1 <=> (RunFailed /\ recovery_policy.notify_on_failure))
        /\ RunSucceeded => N = {}

\* the second end-to-end scenario: no retries, ok/timeout, restart, failed
\* fallback attempt, one notification
C5_Witness ==
    /\ RunFailed
    /\ recovery_policy.max_retries = 0
    /\ recovery_policy.notify_on_failure
    /\ Count("restart_ok") = 1
    /\ Count("notify") = 1
    /\ Attempts[1].res.ack_status = "timeout"
    /\ Attempts[2].res.send_status = "fail"

\* the handoff file counts as saved: it can be read, is not empty, and either
\* carries the saved marker or lost the pending marker and was rewritten at
\* non-trivial length
HandoffConfirmed(content) ==
    /\ content.readable
    /\ content.length > 0
    /\ content.saved \/ (~content.pending /\ content.length >= 80)

RolloverStops == Positions("ro_stop_ok") \cup Positions("ro_stop_failed")

\* C6: the rollover stops the session only after the handoff prompt was
\* delivered and the handoff file was then found saved; when the prompt
\* could not be sent or the file was not found saved, the rollover stops
\* and relaunches nothing and the session it found is still there.
C6_StopOnlyAfterHandoff ==
    /\ \A st \in RolloverStops :
          \E p \in Positions("ro_prompt_sent") : \E c \in Positions("ro_check") :
              /\ p < c /\ c < st
              /\ HandoffConfirmed(trace[c].content)
    /\ ( \/ Positions("ro_prompt_failed") # {}
         \/ \E c \in Positions("ro_check") : ~HandoffConfirmed(trace[c].content) ) =>
          /\ RolloverStops = {}
          /\ Positions("ro_start_ok") \cup Positions("ro_start_failed") = {}
          /\ pc \in {"message", "attempt"} => session /\ session_gen = 0

\* the rollover stopped the session after a confirmed handoff
C6_Witness ==
    /\ pc = "ro_start"
    /\ Count("ro_stop_ok") = 1
    /\ ~session

RolloverFailed ==
    \/ Positions("ro_prompt_failed") # {}
    \/ \E c \in Positions("ro_check") : ~trace[c].saved
    \/ Positions("ro_stop_failed") # {}
    \/ Positions("ro_start_failed") # {}

\* C7: after a rollover that failed at any step, the heartbeat message goes
\* to the session that existed before the rollover.
C7_OriginalSessionKept ==
    (pc = "attempt" /\ attempt = 0 /\ RolloverFailed) =>
        /\ ~rollover_handoff_file
        /\ session
        /\ session_gen = 0

\* C8: classify_heartbeat_ack follows the acknowledgement table.
C8_ClassifyAckTable ==
    call.fn = "classify_heartbeat_ack" =>
        LET ack == call.ret[1]
            failure == call.ret[2]
            ls == call.last_state
        IN  /\ << ack, failure >> \in { << "not_checked", "" >>, << "ack", "" >>,
                                        << "blocked", "blocked" >>,
                                        << "timeout", "timeout" >>,
                                        << "no_ack", "no_ack" >> }
            /\ ~call.waited_for_ack => ack = "not_checked"
            /\ (call.waited_for_ack /\ ls \in RUNTIME_STATES \cup {None}) =>
                  /\ ls = "idle" => ack = "ack"
                  /\ ls = "blocked" => ack = "blocked"
                  /\ (ls \notin {"idle", "blocked"} /\ call.timed_out) =>
                        ack = "timeout"
                  /\ (ls \notin {"idle", "blocked"} /\ ~call.timed_out) =>
                        ack = "no_ack"

\* a blocked agent whose wait also timed out is classified blocked
C8_Witness ==
    /\ call.fn = "classify_heartbeat_ack"
    /\ call.waited_for_ack
    /\ call.last_state = "blocked"
    /\ call.timed_out
    /\ call.ret[1] = "blocked"

\* C9: should_retry is false once attempt_index >= max_retries, and true
\* exactly for a retryable failure type below that limit.
C9_ShouldRetry ==
    call.fn = "should_retry_heartbeat_attempt" =>
        /\ call.attempt_index >= call.max_retries => call.ret = FALSE
        /\ call.failure_type \in {"send_fail", "no_ack", "timeout", "blocked",
                                  "", None, "unknown", "error"} =>
              ( call.ret = TRUE <=>
                  /\ call.attempt_index < call.max_retries
                  /\ call.failure_type \in {"send_fail", "no_ack", "timeout",
                                            "blocked"} )

\* a retryable failure on the last attempt the policy allows is not retried
C9_Witness ==
    /\ call.fn = "should_retry_heartbeat_attempt"
    /\ call.failure_type = "timeout"
    /\ call.attempt_index = 2
    /\ call.max_retries = 2
    /\ call.ret = FALSE

\* some configured, non-empty pattern occurs in the output
PatternPresent(output, patterns) ==
    \E k \in 1..Len(patterns) :
        /\ Len(patterns[k]) > 0
        /\ \E a \in 1..Len(output) : \E b \in a..Len(output) :
              SubSeq(output, a, b) = patterns[k]

\* C10: evaluate_runtime_state returns one of the six states, chosen by the
\* first rule that applies: force_state, session not running, output
\* unreadable, blocked pattern, busy pattern (stuck or busy), error reason,
\* blank output, idle; blocked wins over busy and error for any elapsed time.
C10_RuntimeStateOrder ==
    call.fn = "evaluate_runtime_state" =>
        LET st == call.ret.state
            forced == call.force_state \notin {None, ""}
            blocked == PatternPresent(call.output, call.runtime_config.blocked_patterns)
            busy == PatternPresent(call.output, call.runtime_config.busy_patterns)
            failed == call.error_reason \notin {None, ""}
            blank == \A i \in 1..Len(call.output) : call.output[i] = " "
        IN  /\ st \in {"idle", "busy", "blocked", "stuck", "error", "unknown"}
            /\ (forced /\ call.force_state \in RUNTIME_STATES) => st = call.force_state
            /\ ~forced =>
                  IF ~call.session_running THEN st = "unknown"
                  ELSE IF ~call.output_readable THEN st = "unknown"
                  ELSE IF blocked THEN st = "blocked"
                  ELSE IF busy THEN st \in {"stuck", "busy"}
                  ELSE IF failed THEN st = "error"
                  ELSE IF blank THEN st = "unknown"
                  ELSE st = "idle"

\* blocked is returned although a busy pattern, an error reason and an
\* elapsed time beyond the stuck threshold are present as well
C10_Witness ==
    /\ call.fn = "evaluate_runtime_state"
    /\ call.ret.state = "blocked"
    /\ PatternPresent(call.output, call.runtime_config.busy_patterns)
    /\ call.error_reason = "timeout"
    /\ call.elapsed_seconds = 180
    /\ call.runtime_config.stuck_after_seconds = 180

\* the threshold in force: the configured one, the default when that is not
\* positive
StuckThreshold(runtime_config) ==
    IF runtime_config.stuck_after_seconds > 0
    THEN runtime_config.stuck_after_seconds ELSE 180

\* C11 as stated: whenever the classifier returns stuck, a busy pattern
\* matches the output and the timer is at or above the configured
\* stuck_after_seconds.
C11_StuckOnlyThroughBusy ==
    (call.fn = "evaluate_runtime_state" /\ call.ret.state = "stuck") =>
        /\ PatternPresent(call.output, call.runtime_config.busy_patterns)
        /\ call.elapsed_seconds # NoElapsed
        /\ call.elapsed_seconds >= call.runtime_config.stuck_after_seconds

\* C11 amended: when no force_state is supplied, the classifier returns
\* stuck only with a busy pattern in the output and a timer at or above the
\* threshold; when the busy rule is the one that applies (session running,
\* output readable, no blocked pattern) and the timer is absent or below
\* the threshold, it returns busy.
C11_StuckOnlyThroughBusyUnforced ==
    (call.fn = "evaluate_runtime_state" /\ call.force_state \in {None, ""}) =>
        LET T == StuckThreshold(call.runtime_config)
            busy == PatternPresent(call.output, call.runtime_config.busy_patterns)
            blocked == PatternPresent(call.output, call.runtime_config.blocked_patterns)
        IN  /\ call.ret.state = "stuck" =>
                  /\ busy
                  /\ call.elapsed_seconds # NoElapsed
                  /\ call.elapsed_seconds >= T
                  /\ call.elapsed_seconds >= call.runtime_config.stuck_after_seconds
            /\ ( /\ call.session_running /\ call.output_readable
                 /\ busy /\ ~blocked
                 /\ call.elapsed_seconds < T ) => call.ret.state = "busy"

\* one second below the threshold with a busy pattern: busy
C11_Witness ==
    /\ call.fn = "evaluate_runtime_state"
    /\ call.force_state = None
    /\ call.runtime_config.stuck_after_seconds > 0
    /\ call.elapsed_seconds = call.runtime_config.stuck_after_seconds - 1
    /\ PatternPresent(call.output, call.runtime_config.busy_patterns)
    /\ call.ret.state = "busy"

\* the run ended at one of its skip or configuration checks
EndedBeforeRollover ==
    /\ pc = "done"
    /\ trace[1].ev \in {"return_no_tmux", "return_not_found", "skip_agent_disabled",
                        "return_no_heartbeat", "skip_heartbeat_disabled",
                        "skip_not_running"}

\* the rollover was triggered: the handoff prompt is about to be sent or its
\* sending was tried
RolloverTriggered ==
    \/ pc = "ro_prompt"
    \/ Positions("ro_prompt_sent") \cup Positions("ro_prompt_failed") # {}

\* C12: a rollover is triggered exactly when session_mode is fresh, or auto
\* with a detected percentage below 25; otherwise no handoff template is
\* written, no handoff prompt is sent and the session is neither stopped nor
\* relaunched before the heartbeat.
C12_RolloverTrigger ==
    (pc \notin {"start", "rollover"} /\ ~EndedBeforeRollover) =>
        LET due == \/ session_mode = "fresh"
                   \/ /\ session_mode = "auto"
                      /\ \E d \in Positions("ro_context") :
                            /\ trace[d].percent # NoPercent
                            /\ trace[d].percent < 25
        IN  /\ RolloverTriggered <=> due
            /\ ~due =>
                  /\ handoff = NoHandoff
                  /\ Positions("ro_check") = {}
                  /\ RolloverStops = {}
                  /\ Positions("ro_start_ok") \cup Positions("ro_start_failed") = {}
                  /\ ~rollover_handoff_file
                  /\ (pc = "attempt" /\ attempt = 0) => session /\ session_gen = 0

\* auto mode with 24 percent left: the handoff prompt went out
C12_Witness ==
    /\ session_mode = "auto"
    /\ \E d \in Positions("ro_context") : trace[d].percent = 24
    /\ Positions("ro_prompt_sent") # {}
    /\ pc = "attempt"

\* the rollover ran to its end before position a of the history: template
\* written, prompt sent, handoff found saved, session stopped, new session
\* started, in this order
RolloverCompletedBefore(a) ==
    \E t \in Positions("ro_template") : \E p \in Positions("ro_prompt_sent") :
    \E c \in Positions("ro_check") : \E st \in Positions("ro_stop_ok") :
    \E ok \in Positions("ro_start_ok") :
        /\ t < p /\ p < c /\ c < st /\ st < ok /\ ok < a
        /\ HandoffConfirmed(trace[c].content)

\* C13: a heartbeat message carries the pointer to the handoff file exactly
\* when the rollover completed before it, its steps in the order template
\* written, prompt sent, handoff confirmed saved, session stopped, fresh
\* session started; every step of the rollover lies before the first
\* heartbeat message.
C13_PrefixIffRolloverCompleted ==
    /\ \A a \in Positions("attempt") :
          /\ trace[a].prefixed <=> RolloverCompletedBefore(a)
          /\ trace[a].prefixed <=> (Positions("ro_start_ok") # {})
          /\ \A i \in (a + 1)..Len(trace) :
                trace[i].ev \notin {"ro_context", "ro_template", "ro_prompt_sent",
                                    "ro_prompt_failed", "ro_check", "ro_stop_ok",
                                    "ro_stop_failed", "ro_start_ok", "ro_start_failed"}
    /\ pc \in {"attempt", "audit", "decide", "backoff", "post"} =>
          (prefixed <=> RolloverCompletedBefore(Len(trace) + 1))

\* a prefixed heartbeat message was delivered to the fresh session
C13_Witness ==
    /\ pc = "audit"
    /\ session_gen = 1
    /\ trace[Len(trace)].ev = "attempt"
    /\ trace[Len(trace)].prefixed
    /\ trace[Len(trace)].res.send_status = "ok"


FileContent(dir, file) == IF file \in DOMAIN dir THEN dir[file] ELSE << >>

IsExtension(old, new) == Len(old) <= Len(new) /\ SubSeq(new, 1, Len(old)) = old

LoggedEvents(dir) == Payloads(ConcatFiles(dir, SortedNames(DOMAIN dir)))

DerivedFieldsConsistent(event, send_status, ack_status, failure_type, phase, duration_ms) ==
    /\ event.result = _heartbeat_result(send_status, ack_status, failure_type)
    /\ event.result \in {"success", "failure", "pending", "unknown"}
    /\ event.stage = (IF phase = "" THEN "heartbeat_attempt" ELSE phase)
    /\ event.duration = (IF duration_ms < 0 THEN 0 ELSE duration_ms)
    /\ event.duration_ms = event.duration

\* C15: round trip.  The event an append writes carries result, stage and
\* duration as functions of the inputs (result of send_status, ack_status and
\* failure_type; stage the phase, heartbeat_attempt when the phase is empty;
\* duration the supplied duration clamped at 0), and a read of a log that
\* holds one event, filtered by that event's agent id or by its heartbeat id,
\* returns exactly that event.
C15_RoundTrip ==
    /\ call.fn = "_append_heartbeat_audit_event" =>
          /\ DerivedFieldsConsistent(call.event, call.kw.send_status, call.kw.ack_status,
                                     call.kw.failure_type, call.kw.phase, call.kw.duration_ms)
          /\ call.event.agent_id = call.kw.agent_id
          /\ call.event.hb_id = call.kw.heartbeat_id
          /\ LET lines == audit_dir[call.file]
             IN  lines[Len(lines)] = JsonLine(call.event)
    /\ (call.fn = "cmd_heartbeat_trace" /\ EventCount(audit_dir) = 1) =>
          LET event == LoggedEvents(audit_dir)[1]
              by_agent == _resolve_trace_agent_id(call.args.agent) = event.agent_id
              by_hb == call.args.hb_id = event.hb_id
          IN  (/\ call.args.since = NoText /\ call.args.until = NoText
               /\ call.args.limit >= 1
               /\ by_agent \/ by_hb
               /\ call.args.agent = NoAgent \/ by_agent
               /\ call.args.hb_id = None \/ by_hb)
              => /\ call.ret.rc = 0
                 /\ call.ret.events = << event >>
                 /\ DerivedFieldsConsistent(call.ret.events[1], event.send_status,
                                            event.ack_status, event.failure_type,
                                            event.phase, event.duration_ms)

\* an event with an empty phase and a negative duration, appended for agent
\* e-2 next to a file of foreign lines, is read back by its heartbeat id
C15_Witness ==
    /\ call.fn = "cmd_heartbeat_trace"
    /\ EventCount(audit_dir) = 1
    /\ <<"e", "-", "1">> \in DOMAIN audit_dir
    /\ call.args.hb_id = "hb-1" /\ call.args.agent = NoAgent
    /\ call.args.since = NoText /\ call.args.until = NoText
    /\ Len(call.ret.events) = 1
    /\ call.ret.events[1].agent_id = <<"e", "-", "2">>
    /\ call.ret.events[1].phase = ""
    /\ call.ret.events[1].stage = "heartbeat_attempt"
    /\ call.ret.events[1].duration = 0
    /\ call.ret.events[1].result = "pending"

SeqRange(s) == { s[i] : i \in 1..Len(s) }

TimeOf(event) == _parse_iso8601_utc(event.timestamp)

\* the well-formed events of the log that match the filters of a request
MatchingEvents(dir, args) ==
    LET since == _parse_iso8601_utc(args.since)
        until == _parse_iso8601_utc(args.until)
    IN  { e \in SeqRange(LoggedEvents(dir)) :
            /\ args.agent = NoAgent \/ e.agent_id = _resolve_trace_agent_id(args.agent)
            /\ args.hb_id = None \/ e.hb_id = args.hb_id
            /\ args.since = NoText \/ TimeLeq(since, TimeOf(e))
            /\ args.until = NoText \/ TimeLeq(TimeOf(e), until) }

MinOf(a, b) == IF a <= b THEN a ELSE b

\* what a read returns apart from its order: matching events only, each once,
\* as many as the limit and the hard maximum allow, and none older than an
\* event it leaves out
ReadSelects(dir, args, events) ==
    LET matching == MatchingEvents(dir, args)
    IN  /\ SeqRange(events) \subseteq matching
        /\ Cardinality(SeqRange(events)) = Len(events)
        /\ Len(events) <= _HEARTBEAT_TRACE_MAX_LIMIT
        /\ args.limit >= 1 =>
              Len(events) = MinOf(Cardinality(matching),
                                  MinOf(args.limit, _HEARTBEAT_TRACE_MAX_LIMIT))
        /\ \A kept \in SeqRange(events), left \in matching \ SeqRange(events) :
              TimeLeq(TimeOf(left), TimeOf(kept))

NewestFirst(events) ==
    \A i, j \in 1..Len(events) : i < j => TimeLeq(TimeOf(events[j]), TimeOf(events[i]))

\* C16: a read of the audit log returns exactly the well-formed events that
\* match all supplied filters (agent id, heartbeat id, inclusive since and
\* until), newest first by timestamp, truncated to the requested limit and to
\* at most 5000; malformed lines are skipped and the read does not fail.
C16_ReadNewestFirst ==
    (call.fn = "cmd_heartbeat_trace" /\ call.args.since # InvalidText
        /\ call.args.until # InvalidText
        /\ ~(call.args.since # NoText /\ call.args.until # NoText
             /\ ~TimeLeq(_parse_iso8601_utc(call.args.since),
                         _parse_iso8601_utc(call.args.until))))
    => /\ call.ret.rc = 0
       /\ ReadSelects(audit_dir, call.args, call.ret.events)
       /\ NewestFirst(call.ret.events)

\* the events an SLO request covers: those of its agent inside its window
SloEvents(dir, args, summary) ==
    { e \in SeqRange(LoggedEvents(dir)) :
        /\ args.agent = NoAgent \/ e.agent_id = _resolve_trace_agent_id(args.agent)
        /\ TimeLeq(summary.since, TimeOf(e))
        /\ TimeLeq(TimeOf(e), summary.until) }

\* runs: the covered events that share (agent_id, heartbeat_id)
SloRuns(events) ==
    { { e \in events : e.agent_id = f.agent_id /\ e.hb_id = f.hb_id } : f \in events }

FirstByTime(run) == CHOOSE e \in run : \A f \in run : TimeLeq(TimeOf(e), TimeOf(f))

LastByTime(run) == CHOOSE e \in run : \A f \in run : TimeLeq(TimeOf(f), TimeOf(e))

\* C17: in the SLO summary a run is the set of events sharing (agent_id,
\* heartbeat_id) and its outcome is that of its last event by timestamp:
\* success_runs counts the runs whose last event has result success,
\* timeout_runs those whose last event is in the timeout failure bucket,
\* success_rate = success_runs/runs (1 with no runs) and timeout_rate =
\* timeout_runs/runs (0 with no runs).
C17_RunOutcomeIsLastEvent ==
    (call.fn = "cmd_heartbeat_slo" /\ call.ret.rc = 0) =>
        LET summary == call.ret.summary
            runs == SloRuns(SloEvents(audit_dir, call.args, summary))
            success == { r \in runs : LastByTime(r).result = "success" }
            timeout == { r \in runs : _failure_bucket(LastByTime(r)) = "timeout" }
        IN  /\ summary.runs = Cardinality(runs)
            /\ summary.success_runs = Cardinality(success)
            /\ summary.timeout_runs = Cardinality(timeout)
            /\ summary.success_rate
                  = (IF runs = {} THEN [num |-> 1, den |-> 1]
                     ELSE [num |-> Cardinality(success), den |-> Cardinality(runs)])
            /\ summary.timeout_rate
                  = (IF runs = {} THEN [num |-> 0, den |-> 1]
                     ELSE [num |-> Cardinality(timeout), den |-> Cardinality(runs)])

\* the runs that contribute a recovery-latency sample, and their samples
SamplingRuns(runs) ==
    { r \in runs : Cardinality(r) > 1 \/ \E e \in r : e.recovery_action # "" }

SampleOf(run) == SpanMs(TimeOf(FirstByTime(run)), TimeOf(LastByTime(run)))

DurationsOf(run) == SumDurations(SelectSeq(LoggedEvents(audit_dir), LAMBDA e : e \in run))

\* C18: a run contributes a recovery-latency sample if and only if it has
\* more than one event or an event with a non-empty recovery_action; the
\* sample is the millisecond span between the timestamps of its first and its
\* last event, or the sum of its attempt durations; a two-event run with
\* events 40 seconds apart gives one sample of 40000 ms and a p95 of 40000 ms.
C18_RecoverySamples ==
    (call.fn = "cmd_heartbeat_slo" /\ call.ret.rc = 0) =>
        LET summary == call.ret.summary
            sampling == SamplingRuns(SloRuns(SloEvents(audit_dir, call.args, summary)))
            spans == summary.recovery_spans
        IN  /\ summary.recovery_samples = Cardinality(sampling)
            /\ Len(spans) = summary.recovery_samples
            /\ \A i \in 1..Len(spans) :
                  \E r \in sampling : spans[i] \in {SampleOf(r), DurationsOf(r)}
            /\ \A r \in sampling :
                  \E i \in 1..Len(spans) : spans[i] \in {SampleOf(r), DurationsOf(r)}
            /\ (Cardinality(sampling) = 1 /\ \E r \in sampling : SampleOf(r) = 40000) =>
                  (spans = << 40000 >> /\ summary.recovery_p95_ms = 40000)

\* the window a request names, letter case and surrounding blanks aside
\* (daily when none is given), and the bounds that apply to it
WindowName(args) == NormalizeWindow(args.window)

EffectiveSince(clock, args) ==
    IF args.since # NoText THEN _parse_iso8601_utc(args.since)
    ELSE [sec |-> clock.sec - (IF WindowName(args) = "weekly" THEN 7 ELSE 1) * 86400,
          micro |-> clock.micro]

EffectiveUntil(clock, args) ==
    IF args.until # NoText THEN _parse_iso8601_utc(args.until) ELSE clock

\* C19: a trace or SLO request whose effective since is later than its
\* effective until, and an SLO request whose window is neither daily nor
\* weekly, is rejected with a validation error before any event is read;
\* every other request (with timestamps that parse) is answered.
C19_ValidationBeforeRead ==
    /\ (call.fn = "cmd_heartbeat_trace" /\ call.args.since # InvalidText
            /\ call.args.until # InvalidText) =>
          IF /\ call.args.since # NoText /\ call.args.until # NoText
             /\ ~TimeLeq(_parse_iso8601_utc(call.args.since),
                         _parse_iso8601_utc(call.args.until))
          THEN call.ret.rc = 1 /\ ~call.ret.read /\ call.ret.events = << >>
          ELSE call.ret.rc = 0 /\ call.ret.read
    /\ call.fn = "cmd_heartbeat_slo" =>
          IF \/ WindowName(call.args) \notin {"daily", "weekly"}
             \/ ~TimeLeq(EffectiveSince(now, call.args), EffectiveUntil(now, call.args))
          THEN /\ call.ret.rc = 1 /\ ~call.ret.read
               /\ call.ret.summary.error # "" /\ ~call.ret.summary.read
          ELSE /\ call.ret.rc = 0 /\ call.ret.read
               /\ call.ret.summary.error = ""
               /\ call.ret.summary.since = EffectiveSince(now, call.args)
               /\ call.ret.summary.until = EffectiveUntil(now, call.args)
               /\ call.ret.summary.events
                     = Cardinality(SloEvents(audit_dir, call.args, call.ret.summary))

\* an SLO request with only a since, later than the clock, over a log that
\* holds events: rejected through the default until
C19_Witness ==
    /\ call.fn = "cmd_heartbeat_slo"
    /\ EventCount(audit_dir) > 0
    /\ call.args.window = "daily"
    /\ call.args.since = FutureText /\ call.args.until = NoText
    /\ call.ret.rc = 1 /\ ~call.ret.read
    /\ call.ret.error = "since_later_than_until"

\* C20: the dispatcher's decision before a scheduled task is a total
\* function of state, elapsed and the configured timeout: blocked -> skip;
\* error -> restart; stuck -> restart if elapsed is known and at least the
\* configured timeout (900 when none is configured), else skip; busy ->
\* restart if a timeout is configured and elapsed is known and at least it,
\* else skip; every other state -> continue.
C20_DecisionTable ==
    call.fn = "_decide_runtime_action" =>
        LET known == call.elapsed # NoElapsed
            configured == call.timeout_seconds # NoTimeout
            threshold == IF configured THEN call.timeout_seconds ELSE 900
        IN  /\ call.ret.action \in {"skip", "restart", "continue"}
            /\ call.state = "blocked" => call.ret.action = "skip"
            /\ call.state = "error" => call.ret.action = "restart"
            /\ call.state = "stuck" =>
                  (call.ret.action = "restart" <=> (known /\ call.elapsed >= threshold))
            /\ call.state = "stuck" => call.ret.action \in {"restart", "skip"}
            /\ call.state = "busy" =>
                  (call.ret.action = "restart"
                     <=> (configured /\ known /\ call.elapsed >= call.timeout_seconds))
            /\ call.state = "busy" => call.ret.action \in {"restart", "skip"}
            /\ call.state \notin {"blocked", "error", "stuck", "busy"} =>
                  call.ret.action = "continue"

\* a busy agent past the 900 s default with no timeout configured is skipped
C20_Witness ==
    /\ call.fn = "_decide_runtime_action"
    /\ call.state = "busy"
    /\ call.timeout_seconds = NoTimeout
    /\ call.elapsed = 1200
    /\ call.ret.action = "skip"


(***************************************************************************)
(* C21: clear_context forces a clean restart before the task is sent       *)
(***************************************************************************)
\* the scheduled run found the agent running, decided to continue, the
\* schedule asks for clear_context and the agent was idle when re-read
ClearContextCase ==
    /\ call.fn = "cmd_schedule_run"
    /\ call.sched.preflight = "ok"
    /\ call.sched.clear_context
    /\ session_exists(call.before.tmux, "emp-0001")
    /\ _decide_runtime_action(call.runtime.state, call.runtime.elapsed,
                              call.sched.timeout, call.runtime.reason).action = "continue"
    /\ call.state_after = "idle"

LogHas(ev) == \E i \in 1..Len(call.log) : call.log[i].ev = ev

\* C21: in the clear_context case a sent task is preceded by a stop of the
\* running session and a launch of a new one that carries no resume
\* arguments, and the old session is not reused.
C21_CleanRestartBeforeTask ==
    (ClearContextCase /\ LogHas("send")) =>
        /\ ~LogHas("reuse")
        /\ \E i, j, k \in 1..Len(call.log) :
              /\ i < j /\ j < k
              /\ call.log[i].ev = "stop"
              /\ call.log[j].ev = "launch" /\ ~call.log[j].resume
              /\ call.log[k].ev = "send"


(***************************************************************************)
(* C22: no second session for an agent that has one                        *)
(***************************************************************************)
\* the containers the agent id has: its dedicated session, its window
AgentContainers(tm, agent_id) ==
    {[session |-> p.session, window |-> p.window] :
        p \in {q \in tm : \/ q.session = _session_name_for_agent(agent_id)
                          \/ /\ q.session = DEFAULT_GROUP_SESSION_NAME
                             /\ q.window = _window_name_for_agent(agent_id)}}

\* C22: start_session on an id that has a session returns false and leaves
\* the server as it was; cmd_start on a running agent leaves the server as
\* it was, returning 0 (reuse) when restore is asked and 1 when it is not;
\* an agent never has two containers.
C22_NoSecondSession ==
    /\ Cardinality(AgentContainers(tmux, "emp-0001")) <= 1
    /\ (call.fn = "start_session" /\ session_exists(call.before, call.agent_id)) =>
          (~call.ret /\ tmux = call.before)
    /\ (call.fn = "cmd_start" /\ call.cfg.preflight = "ok"
         /\ session_exists(call.before.tmux, call.args.agent_id)) =>
          /\ tmux = call.before.tmux
          /\ RestoreRequested(call.args) => (call.rc = 0 /\ LogHas("reuse"))
          /\ ~RestoreRequested(call.args) => call.rc = 1

\* both starts were tried on an agent that has a session
C22_Witness ==
    /\ call.fn = "cmd_start" /\ call.cfg.preflight = "ok"
    /\ session_exists(call.before.tmux, "emp-0001")
    /\ \E p \in call.before.tmux : p.session = DEFAULT_GROUP_SESSION_NAME
    /\ call.args.restore = "no" /\ call.args.tmux_layout = "sessions"
    /\ call.rc = 1


(***************************************************************************)
(* C23, C24: start_session_with_layout                                     *)
(***************************************************************************)
LayoutCall == call.fn = "start_session_with_layout"

\* the container of the call was created: its first pane was titled
ContainerCreated == \E i \in 1..Len(call.log) : call.log[i].op = "title"

C23_WitnessNotALeaf ==
    /\ LayoutCall /\ call.raised /\ ContainerCreated
    /\ call.fault = NoFault

CallLeaves == LeafPaths(_normalize_layout_node(call.layout_spec), << >>)

CallTarget == _parse_target_path(call.target_path)

RespawnIndex == CHOOSE i \in 1..Len(call.log) : call.log[i].op = "respawn"

\* the pane of leaf l was given title t before the launch
TitledBeforeLaunch(l, t) ==
    \E i \in 1..(RespawnIndex - 1) :
        /\ call.log[i].op = "title"
        /\ call.log[i].pane = PaneIdAt(l)
        /\ call.log[i].title = t

\* one launch, in the pane of the target leaf; the other leaves run a shell
LaunchedInTargetOnly ==
    /\ Cardinality({i \in 1..Len(call.log) : call.log[i].op = "respawn"}) = 1
    /\ call.log[RespawnIndex].pane = PaneIdAt(CallTarget)
    /\ call.ret = PaneIdAt(CallTarget)
    /\ \A p \in ContainerPanes(tmux, call.agent_id) :
          IF p.id = PaneIdAt(CallTarget) THEN p.command = "launch"
          ELSE p.command \in {"bash", "default-shell"}

AllLeavesCreated ==
    {p.id : p \in ContainerPanes(tmux, call.agent_id)}
        = {PaneIdAt(CallLeaves[i]) : i \in 1..Len(CallLeaves)}

\* C24 as stated: on success every leaf pane exists and was given its
\* path-qualified title before the launch, which happens in the target
\* leaf only.
C24_AllLeavesPathTitled ==
    (LayoutCall /\ ~call.raised) =>
        /\ AllLeavesCreated
        /\ \A i \in 1..Len(CallLeaves) :
              TitledBeforeLaunch(CallLeaves[i], PathTitle(call.agent_id, CallLeaves[i]))
        /\ LaunchedInTargetOnly

\* C24 amended: every leaf but the target was given its path-qualified
\* title and the target leaf the agent's own title, all before the launch,
\* which happens in the target leaf only.
C24_LeavesTitledBeforeLaunch ==
    (LayoutCall /\ ~call.raised) =>
        /\ AllLeavesCreated
        /\ \A i \in 1..Len(CallLeaves) :
              TitledBeforeLaunch(CallLeaves[i],
                  IF CallLeaves[i] = CallTarget THEN AgentTitle(call.agent_id)
                  ELSE PathTitle(call.agent_id, CallLeaves[i]))
        /\ \A p \in ContainerPanes(tmux, call.agent_id) :
              p.title.qualified = (p.id # PaneIdAt(CallTarget))
        /\ LaunchedInTargetOnly

\* a three-leaf layout started with the launch in a leaf split off second
C24_Witness ==
    /\ LayoutCall /\ ~call.raised
    /\ Len(CallLeaves) = 3
    /\ CallTarget = << 0, 1 >>
    /\ Cardinality(ContainerPanes(tmux, call.agent_id)) = 3


(***************************************************************************)
(* C25: the order of the Enter attempts of send_keys                       *)
(***************************************************************************)
SendIndex(op) == CHOOSE i \in 1..Len(call.log) : call.log[i] = op

SendHas(op) == \E i \in 1..Len(call.log) : call.log[i] = op

TextOps == {"paste-text", "literal-1", "literal-2", "literal-3"}

EnterOps == {"C-m", "Enter", "paste-newline"}

\* C25: with enter_via_key, C-m is the first Enter attempt, the Enter key
\* is sent only after a failed C-m, the newline is pasted only after both
\* failed, and every Enter attempt comes after the whole text went through.
C25_EnterOrder ==
    (call.fn = "send_keys" /\ call.send_enter /\ call.enter_via_key) =>
        /\ SendHas("Enter") =>
              /\ SendHas("C-m") /\ SendIndex("C-m") < SendIndex("Enter")
              /\ "C-m" \in call.failing
        /\ SendHas("paste-newline") =>
              /\ SendHas("Enter") /\ SendIndex("Enter") < SendIndex("paste-newline")
              /\ {"C-m", "Enter"} \subseteq call.failing
        /\ (SendHas("C-m") /\ "C-m" \notin call.failing) =>
              (~SendHas("Enter") /\ ~SendHas("paste-newline") /\ call.ret)
        /\ (SendHas("Enter") /\ "Enter" \notin call.failing) =>
              (~SendHas("paste-newline") /\ call.ret)
        /\ \A i \in 1..Len(call.log) : call.log[i] \in EnterOps =>
              /\ \A j \in 1..Len(call.log) : call.log[j] \in TextOps =>
                    (j < i /\ call.log[j] \notin call.failing)
              /\ \A j \in 1..Len(call.log) : call.log[j] \in EnterOps \ {"C-m"} =>
                    SendHas("C-m")
              /\ Cardinality({j \in 1..Len(call.log) : call.log[j] \in TextOps})
                    = IF call.keys.multiline THEN 1 ELSE ChunkCount(call.keys.len)

\* a three-chunk text went through, C-m failed and the Enter key succeeded
C25_Witness ==
    /\ call.fn = "send_keys" /\ call.send_enter /\ call.enter_via_key
    /\ call.keys.len = 250
    /\ call.log = << "literal-1", "literal-2", "literal-3", "C-m", "Enter" >>
    /\ "paste-newline" \in call.failing
    /\ call.ret


(***************************************************************************)
(* C26: every wait ends within its deadline plus one poll step             *)
(***************************************************************************)
Waiting == call.fn = "wait"

\* a readiness wait answers true or false, false only without a pane or
\* at its deadline
ReadinessAnswers ==
    (Waiting /\ call.done /\ call.kind \in ReadinessWaits) =>
        /\ call.ret \in {"true", "false"}
        /\ call.ret = "false" =>
              (call.elapsed = 0 \/ call.elapsed >= WaitDeadline(call.kind, call.timeout))

LongestStep(w) ==
    IF w.kind \in ReadinessWaits /\ w.codex THEN 31 ELSE PollInterval(w.kind)

\* an iteration ends the wait, lets time pass, or leaves the start phase
PollProgress ==
    WaitPoll => \/ call'.done
                \/ call'.elapsed > call.elapsed
                \/ call'.phase # call.phase

FreshStartCall ==
    /\ call.fn = "cmd_start"
    /\ LogHas("find_new")

\* the paths of provider_before_sessions of the call
SnapshotOfCall ==
    _snapshot_provider_sessions(call.cfg.provider_key, call.before.provider.files)

SavedAfterFindNew ==
    {call.log[i].session_id : i \in {j \in 1..Len(call.log) : call.log[j].ev = "save"}}

\* C27: the session id a fresh start persists after find_new is the id of a
\* session file that was not in the snapshot taken before the launch.
C27_SavedIdNotInSnapshot ==
    FreshStartCall => SavedAfterFindNew \cap SnapshotOfCall = {}


(***************************************************************************)
(* C28: resume or fresh launch in cmd_start                                *)
(***************************************************************************)
LaunchIndex == {i \in 1..Len(call.log) : call.log[i].ev = "launch"}

EventIndex(ev) == {i \in 1..Len(call.log) : call.log[i].ev = ev}

StartLaunched == call.fn = "cmd_start" /\ LaunchIndex # {}

\* the record of the agent as it was when the command began, and whether the
\* session it names is among the session files of the working directory
RecordResolves ==
    /\ call.before.provider.record.kind = "ok"
    /\ call.before.provider.record.session_id # ""
    /\ call.cfg.provider_key \in TrackedProviders
    /\ \E f \in call.before.provider.files :
          f.path = call.before.provider.record.session_id

RestoreAsked == call.args.restore # "no"

SessionsTracked ==
    /\ call.cfg.provider_key \in TrackedProviders
    /\ ~(call.cfg.provider_key = "droid" /\ call.cfg.exec)

ResumeSkipsInjection ==
    \A i \in LaunchIndex : call.log[i].resume =>
        /\ ~call.log[i].prompt /\ ~call.log[i].mcp
        /\ call.log[i].session_id = call.before.provider.record.session_id
        /\ EventIndex("inject") = {}
        /\ EventIndex("find_new") = {}

FreshBookkeeping ==
    \A i \in LaunchIndex : ~call.log[i].resume =>
        /\ \A j \in EventIndex("snapshot") : j < i
        /\ \A j \in EventIndex("find_new") : i < j
        /\ \A k \in EventIndex("save") :
              /\ call.log[k].session_id # ""
              /\ \E j \in EventIndex("find_new") : j < k
        /\ SessionsTracked => EventIndex("snapshot") # {}
        /\ (SessionsTracked /\ call.rc = 0) => EventIndex("find_new") # {}
        /\ ~SessionsTracked => EventIndex("find_new") = {}
        /\ IF EventIndex("save") = {}
           THEN provider.record = call.before.provider.record
           ELSE \E k \in EventIndex("save") :
                   provider.record = SavedRecord(call.log[k].session_id)

\* C28 as stated: the launch resumes exactly when restore was asked and the
\* persisted record resolves; a resumed launch injects nothing; a fresh one
\* is bracketed by the snapshot and find_new and saves only a found id.
C28_ResumeIffRecordResolves ==
    StartLaunched =>
        /\ \A i \in LaunchIndex : call.log[i].resume <=> (RestoreAsked /\ RecordResolves)
        /\ ResumeSkipsInjection
        /\ FreshBookkeeping

\* C28 amended: the same, for a provider whose sessions are tracked; a droid
\* launcher run with exec never resumes.
C28_ResumeIffTrackedRecordResolves ==
    StartLaunched =>
        /\ \A i \in LaunchIndex :
              call.log[i].resume <=> (RestoreAsked /\ SessionsTracked /\ RecordResolves)
        /\ ResumeSkipsInjection
        /\ FreshBookkeeping

C28_Witness ==
    /\ StartLaunched /\ call.rc = 0
    /\ call.cfg.system_prompt = "cli" /\ call.cfg.mcp = "cli_json"
    /\ \E i \in LaunchIndex : call.log[i].resume /\ call.log[i].session_id = "s1"
    /\ \E k \in EventIndex("save") : call.log[k].session_id = "s1"


(***************************************************************************)
(* C29: failures inside the provider session resolver                      *)
(***************************************************************************)
\* C29: no start of an agent ends in an exception raised by the session
\* resolver: a record that cannot be read and a session file that cannot be
\* examined count as not found and the start goes on.
C29_ResolverNeverRaises ==
    (call.fn \in {"cmd_start", "cmd_schedule_run"}) => ~call.raised


(***************************************************************************)
(* C30: the parsed recovery policy                                         *)
(***************************************************************************)
PolicyCall == call.fn = "parse_heartbeat_recovery_policy"

\* the value the configuration gives a key: under "recovery" first
Configured(key) ==
    IF call.heartbeat.recovery_is_dict /\ call.heartbeat.recovery[key].kind # "missing"
    THEN call.heartbeat.recovery[key]
    ELSE call.heartbeat.top[key]

NotOnCommandLine(attr) == call.args[attr].kind = "missing"

PolicyInRange ==
    /\ call.ret.max_retries >= 0
    /\ call.ret.retry_backoff_seconds >= 0
    /\ call.ret.fallback_mode \in {"none", "fresh"}
    /\ call.ret.notifier_channel # ""

PolicyNormalized ==
    /\ (Configured("fallback_mode") \in {RawText("restart"), RawText(" Restart ")}
          /\ NotOnCommandLine("fallback_mode")) => call.ret.fallback_mode = "fresh"
    /\ (Configured("max_retries").kind = "int" /\ Configured("max_retries").n < 0
          /\ NotOnCommandLine("retry")) => call.ret.max_retries = 0
    /\ (Configured("retry_backoff_seconds").kind = "int"
          /\ Configured("retry_backoff_seconds").n < 0
          /\ NotOnCommandLine("backoff_seconds")) => call.ret.retry_backoff_seconds = 0
    /\ (Configured("notifier_channel") \in {RawText(""), RawText("   ")}
          /\ NotOnCommandLine("notifier_channel")) => call.ret.notifier_channel = "all"

PolicyDefaulted ==
    /\ (Configured("max_retries") = RawMissing /\ NotOnCommandLine("retry"))
          => call.ret.max_retries = 1
    /\ (Configured("retry_backoff_seconds") = RawMissing
          /\ NotOnCommandLine("backoff_seconds")) => call.ret.retry_backoff_seconds = 3
    /\ (Configured("fallback_mode") = RawMissing /\ NotOnCommandLine("fallback_mode"))
          => call.ret.fallback_mode = "fresh"
    /\ (Configured("notify_on_failure") = RawMissing
          /\ call.args.notify_on_failure = RawBool(FALSE)) => ~call.ret.notify_on_failure
    /\ (Configured("notifier_channel") = RawMissing
          /\ NotOnCommandLine("notifier_channel")) => call.ret.notifier_channel = "all"

PolicyOverridden ==
    /\ call.args.retry.kind = "int" =>
          call.ret.max_retries = (IF call.args.retry.n < 0 THEN 0 ELSE call.args.retry.n)
    /\ call.args.backoff_seconds.kind = "int" =>
          call.ret.retry_backoff_seconds =
              (IF call.args.backoff_seconds.n < 0 THEN 0 ELSE call.args.backoff_seconds.n)
    /\ call.args.fallback_mode \in {RawText("none"), RawText("fresh")} =>
          call.ret.fallback_mode = call.args.fallback_mode.text
    /\ call.args.notify_on_failure = RawBool(TRUE) => call.ret.notify_on_failure
    /\ call.args.notifier_channel \in {RawText("ops"), RawText(" ops ")} =>
          call.ret.notifier_channel = "ops"

\* C30: whatever the heartbeat configuration and the command line, the
\* parsed policy has max_retries >= 0, retry_backoff_seconds >= 0, a
\* fallback_mode of none or fresh and a non-empty notifier channel; restart
\* becomes fresh, negative integers become 0, a blank channel becomes all,
\* missing values take the defaults 1, 3, fresh, false, and a value given on
\* the command line replaces the configured one.
C30_PolicyNormalized ==
    PolicyCall =>
        /\ PolicyInRange
        /\ PolicyNormalized
        /\ PolicyDefaulted
        /\ PolicyOverridden

C30_Witness ==
    /\ PolicyCall
    /\ Configured("max_retries") = RawInt(-2)
    /\ Configured("fallback_mode") = RawText("none")
    /\ call.args = NoOverrides
    /\ call.ret.max_retries = 0
    /\ call.ret.fallback_mode = "none"


(***************************************************************************)
(* C31: the word "timeout" in the output                                   *)
(***************************************************************************)
ReasonCall == call.fn = "detect_error_reason"

\* a line of the output with the word timeout and a stronger signal
StrongTimeoutLine ==
    \E i \in 1..Len(call.output) :
        LET line == {LowerPhrase(p) : p \in call.output[i]}
        IN  /\ "timeout" \in line
            /\ \/ line \cap {"etimedout", "deadline exceeded", "timed out", "error",
                             "error 522"} # {}
               \/ "failure" \in line /\ "failure modes" \notin line

\* C31: an output in which no line says "timed out" is classified as a
\* timeout error only if one of its lines holds the word timeout together
\* with a stronger signal.
C31_TimeoutNeedsSignalOnSameLine ==
    (ReasonCall /\ call.ret = "timeout"
       /\ \A i \in 1..Len(call.output) : "timed out" \notin call.output[i])
        => StrongTimeoutLine


(***************************************************************************)
(* C32: one heartbeat attempt                                              *)
(***************************************************************************)
AttemptCall == call.fn = "run_heartbeat_attempt"

EndsWait(state) == state \in {"idle", "blocked", "error", "stuck"}

LastObserved ==
    IF call.observed = << >> THEN None ELSE call.observed[Len(call.observed)]

\* C32: a failed send gives send_status fail, ack_status not_checked,
\* failure_type send_fail and no poll; after a successful send with a
\* timeout, no poll follows an observation of idle, blocked, error or
\* stuck, the polling stops without such an observation only when the
\* timeout has elapsed, and ack_status is ack exactly when the last
\* observed state is idle.
C32_AttemptPolling ==
    AttemptCall =>
        /\ ~call.send_ok =>
              /\ call.result.send_status = "fail"
              /\ call.result.ack_status = "not_checked"
              /\ call.result.failure_type = "send_fail"
              /\ call.observed = << >>
        /\ (call.send_ok /\ call.timeout > 0) =>
              /\ call.result.send_status = "ok"
              /\ \A i \in 1..(Len(call.observed) - 1) : ~EndsWait(call.observed[i])
              /\ \A i \in 1..Len(call.observed) : call.observed[i] = call.polls[i].state
              /\ ~EndsWait(LastObserved) => call.elapsed >= call.timeout
              /\ call.result.ack_status = "ack" <=> LastObserved = "idle"
              /\ call.result.last_state = LastObserved

C32_Witness ==
    /\ AttemptCall /\ call.send_ok /\ call.timeout = 8
    /\ Len(call.observed) = 3
    /\ call.observed[2] = "busy" /\ call.observed[3] = "stuck"
    /\ call.result.ack_status = "no_ack"


(***************************************************************************)
(* C33: skips are free of side effects                                     *)
(***************************************************************************)
HeartbeatSkipCase ==
    /\ env.tmux /\ env.found
    /\ \/ ~env.enabled
       \/ env.heartbeat /\ (~env.hb_enabled \/ ~session)

HeartbeatSkipEvents ==
    {Ev("skip_agent_disabled"), Ev("skip_heartbeat_disabled"), Ev("skip_not_running")}

\* the first step of a heartbeat run that has to skip ends the run with
\* return code 0 and only the skip in its history
HeartbeatSkipStep ==
    (pc = "start" /\ pc' # "start" /\ HeartbeatSkipCase) =>
        /\ pc' = "done" /\ rc' = 0
        /\ Len(trace') = 1 /\ trace'[1] \in HeartbeatSkipEvents
        /\ UNCHANGED << session, session_gen, audit, audit_dir, tmux, provider >>

HeartbeatReturned ==
    pc = "done" => UNCHANGED << trace, session, session_gen, audit, audit_dir, tmux, rc >>

ScheduleCall == call.fn = "cmd_schedule_run"

ScheduleDisabled == ScheduleCall /\ call.sched.preflight = "disabled"

ScheduleRuntimeSkip ==
    /\ ScheduleCall /\ call.sched.preflight = "ok"
    /\ _decide_runtime_action(call.runtime.state, call.runtime.elapsed,
                              call.sched.timeout, call.runtime.reason).action = "skip"

Logged(ev) == {i \in 1..Len(call.log) : call.log[i] = Step(ev)}

ScheduleRunningBefore == session_exists(call.before.tmux, "emp-0001")

\* a scheduled run that skips: disabled, it does nothing; skipping on the
\* runtime state, it has at most started the agent that was not running,
\* and a start that failed is the only way for it to report failure
ScheduleSkips ==
    /\ ScheduleDisabled =>
          /\ call.rc = 0 /\ call.log = << >>
          /\ tmux = call.before.tmux /\ provider = call.before.provider
    /\ ScheduleRuntimeSkip =>
          /\ Logged("send") = {} /\ Logged("stop") = {}
          /\ Logged("start") = IF ScheduleRunningBefore THEN {} ELSE {1}
          /\ ScheduleRunningBefore =>
                /\ call.rc = 0 /\ call.log = << >>
                /\ tmux = call.before.tmux /\ provider = call.before.provider
          /\ (call.rc # 0) => ~session_exists(tmux, "emp-0001") \/ call.raised
    /\ ScheduleCall => audit = << >> /\ audit_dir = NoAuditDir

\* C33: a heartbeat run that finds the agent disabled, the heartbeat
\* disabled or the session not running, and a scheduled run that finds the
\* agent or the schedule disabled or decides skip from the runtime state,
\* return 0 and from then on send nothing, stop and restart nothing, append
\* no audit event and notify nobody; disabled, they start no session either.
C33_SkipsHaveNoSideEffects ==
    /\ [][HeartbeatSkipStep /\ HeartbeatReturned]_vars
    /\ [](ScheduleSkips)

C33_Witness ==
    /\ ScheduleRuntimeSkip /\ ~ScheduleRunningBefore /\ call.rc = 0
    /\ session_exists(tmux, "emp-0001")


(***************************************************************************)
(* C34: the dismissal of the model-choice dialog is bounded                *)
(***************************************************************************)
QueryMade == call.fn = "runtime_state" /\ call.queries > 0

\* the query read the screen of a codex agent and the dialog was on it
DialogShowing ==
    /\ call.codex /\ call.q.session /\ call.q.target
    /\ call.q.screen # CaptureFailed /\ Contains(call.q.screen, << "m" >>)

\* a dismissal of an earlier query of this process failed less than 15
\* seconds before this query
FailedRecently ==
    /\ call.before # NoFailure
    /\ call.now - call.before < 150

DismissalFailed == call.attempted /\ call.q.dismiss \notin {"cleared", "cleared_by_down"}

ReadinessDismissals ==
    (call.fn = "wait" /\ call.kind \in ReadinessWaits) => call.attempts <= 3

\* C34: at most 3 dismissals in one readiness wait; a query whose dismissal
\* fails reports blocked, and every further query within the next 15
\* seconds reports blocked and attempts no dismissal.
C34_BlockedForFifteenSeconds ==
    /\ ReadinessDismissals
    /\ QueryMade =>
          /\ DismissalFailed => call.state = "blocked"
          /\ FailedRecently => call.state = "blocked" /\ ~call.attempted

\* C34 amended: at most 3 dismissals in one readiness wait; a query whose
\* dismissal fails reports blocked, and every further query of the same
\* process that finds the dialog showing within the next 15 seconds
\* reports blocked and attempts no dismissal.
C34_BlockedWhileDialogShows ==
    /\ ReadinessDismissals
    /\ QueryMade =>
          /\ DismissalFailed => call.state = "blocked"
          /\ (FailedRecently /\ DialogShowing) =>
                call.state = "blocked" /\ ~call.attempted
          /\ call.attempted => DialogShowing /\ ~FailedRecently

\* 14.9 s after a dismissal that failed the dialog is still there: blocked,
\* and no second attempt
C34_Witness ==
    /\ QueryMade /\ DialogShowing /\ call.now - call.before = 149
    /\ call.before # NoFailure
    /\ call.state = "blocked" /\ ~call.attempted


(***************************************************************************)
(* C35: what an attempt can return, and the length of the retry phase      *)
(***************************************************************************)
SuccessResult(res) ==
    /\ res.send_status = "ok" /\ res.ack_status \in {"ack", "not_checked"}
    /\ res.failure_type = ""

RetryableFailure(res) ==
    /\ ~(res.send_status = "ok" /\ res.ack_status \in {"ack", "not_checked"})
    /\ res.failure_type \in {"send_fail", "no_ack", "timeout", "blocked"}

AllRetryAttemptsFailed ==
    \A k \in 1..Len(RetryAttempts) : ~Succeeded(RetryAttempts[k].res)

\* C35: every attempt returns a success (send ok, ack or not_checked, no
\* failure type) or a failure of type send_fail, no_ack, timeout or
\* blocked; so a retry phase in which every attempt fails has run
\* max_retries+1 attempts when the run is behind it.
C35_AttemptResultsAndFullRetryPhase ==
    /\ \A k \in 1..Len(Attempts) :
          SuccessResult(Attempts[k].res) \/ RetryableFailure(Attempts[k].res)
    /\ (BehindRetryLoop /\ AllRetryAttemptsFailed) =>
          Len(RetryAttempts) = recovery_policy.max_retries + 1

\* two failed attempts of different types, then the fallback
C35_Witness ==
    /\ recovery_policy.max_retries = 1 /\ pc = "fb_restart"
    /\ Len(RetryAttempts) = 2
    /\ RetryAttempts[1].res.failure_type = "no_ack"
    /\ RetryAttempts[2].res.failure_type = "timeout"


(***************************************************************************)
(* C36: the heartbeat command and the SLO aggregator on a successful run   *)
(***************************************************************************)
LastAuditEvent == audit[Len(audit)]

\* C36: a run that returns success has written a last audit event whose
\* result is success and which the SLO summary counts as a successful run;
\* a run that returns failure after an attempt is not counted as one.
C36_SuccessAgreesWithSlo ==
    /\ RunSucceeded =>
          /\ audit # << >>
          /\ LastAuditEvent.result = "success"
          /\ _run_result(LastAuditEvent) = "success"
    /\ (RunFailed /\ audit # << >>) => _run_result(LastAuditEvent) # "success"


(***************************************************************************)
(* C37: a heartbeat run and an agent that is not running                   *)
(***************************************************************************)
SessionCreated == session_gen' # session_gen

\* C37: a heartbeat run whose agent is not running when it starts, or is
\* stopped by an operator during the run, creates no session for it.
C37_NeverStartsStoppedAgent ==
    [][((pc = "start" /\ ~session) \/ StoppedByOperator) => ~SessionCreated]_vars


(***************************************************************************)
(* C38: the heartbeat ids of distinct runs                                 *)
(***************************************************************************)
InvocationsOf(agent_id) ==
    {i \in 1..Len(Invocations) : Invocations[i].agent_id = agent_id}

\* C38: two runs for the same agent have different heartbeat ids, so the
\* SLO summary of an agent counts as many runs as there were invocations.
C38_DistinctHeartbeatIds ==
    /\ \A i, j \in 1..Len(Invocations) :
          (i # j /\ Invocations[i].agent_id = Invocations[j].agent_id)
              => Invocations[i].hb_id # Invocations[j].hb_id
    /\ \A agent_id \in AgentIds :
          build_slo_summary(audit_dir, now, agent_id, "daily", NoTime, NoTime).runs
              = Cardinality(InvocationsOf(agent_id))


(***************************************************************************)
(* C39: one terminal target per agent                                      *)
(***************************************************************************)
TargetsOf(agent_id) ==
    (IF _tmux_has_session(tmux, _session_name_for_agent(agent_id)) THEN 1 ELSE 0)
    + (IF _group_window_exists(tmux, agent_id) THEN 1 ELSE 0)

\* C39: no agent has more than one terminal target, a dedicated session or
\* a window of the shared group, also when starts of the same agent
\* interleave between the check and the creation.
C39_OneTargetPerAgent == \A agent_id \in AgentNames : TargetsOf(agent_id) <= 1


(***************************************************************************)
(* C40: restarts and the send of one scheduled run                         *)
(***************************************************************************)
SendsTried == Logged("send") \cup Logged("send_failed")

\* C40: a scheduled run restarts the agent at most once, and not for
\* clear_context when it started the agent itself; it tries to send the
\* task at most once, after the restart and only when the restart
\* succeeded; when a restart or the send fails it reports failure and does
\* not enter the completion wait.
C40_OneRestartOneSend ==
    ScheduleCall =>
        /\ Cardinality(Logged("stop")) <= 1
        /\ Cardinality(Logged("restart_ok") \cup Logged("restart_failed"))
              = Cardinality(Logged("stop"))
        /\ (/\ ~ScheduleRunningBefore
            /\ _decide_runtime_action(call.runtime.state, call.runtime.elapsed,
                                      call.sched.timeout, call.runtime.reason).action
                  # "restart") => Logged("stop") = {}
        /\ Cardinality(SendsTried) <= 1
        /\ \A i \in SendsTried : \A j \in Logged("stop") :
              j < i /\ \E k \in Logged("restart_ok") : k < i
        /\ (Logged("restart_failed") # {} \/ Logged("send_failed") # {}) =>
              /\ call.rc # 0
              /\ Logged("send") = {} /\ Logged("wait") = {}
        /\ \A i \in Logged("wait") : i = Len(call.log) /\ Logged("send") = {i - 1}

\* a run that started the stuck agent again and sent the task
C40_Witness ==
    /\ ScheduleCall /\ call.rc = 0
    /\ Logged("stop") # {} /\ Logged("restart_ok") # {} /\ Logged("wait") # {}
    /\ call.runtime.state = "stuck"

====
